---- MODULE Spec2Model ----
(***************************************************************************)
(* A model of the SSA POAP pipeline: the consolidation script              *)
(* (scripts/consolidate-data.js), the participant validation utilities     *)
(* (src/merkle-tree.js, lines 99-330), the validation script               *)
(* (scripts/0-validate-data.js), the activity classifier (src/verify.js,   *)
(* scripts/3-verify-builders.js), the minting scripts (src/mint.js,        *)
(* scripts/4-mint-participation.js, scripts/5-mint-builders.js) and the    *)
(* notification script (src/email.js, scripts/6-send-emails.js).           *)
(* The library functions are also modelled on their own: parseCSV on raw    *)
(* text, normalizeName, mintToMany with and without a progress callback,   *)
(* sendEmail's retry loop, the tour window built by src/config.js, and     *)
(* the two address validators side by side.                                *)
(*                                                                         *)
(* Text is modelled as a sequence of one-character strings, so that        *)
(* trimming, lower-casing and pattern matching are computed character by   *)
(* character the way the JavaScript does.                                  *)
(***************************************************************************)
EXTENDS Integers, Sequences, FiniteSets, TLC

VARIABLES
    \* scripts/consolidate-data.js, main()
    pc,                    \* position of main(): wallets, luma, match, write, done
    walletData,            \* array of loaded wallet entries
    walletsByName,         \* Map normalizedName -> index into walletData, insertion order
    registrationsByEmail,  \* Map email -> registration, insertion order
    lumaRows,              \* number of Luma rows with an email read so far
    regIdx,                \* position of the matching loop in registrationsByEmail
    usedWallets,           \* Set of consumed wallet addresses
    matched,
    reviewNeeded,
    missingWallets,
    noEmail,
    allParticipants,       \* what is written to data/participants.json
    \* similarity(str1, str2)
    str1, str2, simResult,
    \* validateWalletAddress(address)
    address, addressCheck,
    \* validateAllParticipants(participants)
    participants, report,
    \* scripts/4-mint-participation.js and scripts/5-mint-builders.js, main()
    tier,                  \* which of the two scripts runs: participation or builder
    recipients,            \* the list loaded from participants.json / builders.json
    mintPc,                \* position of main(): ready, confirm, minting, saved, exited
    mintIdx,               \* position of the mintToMany loop
    successful,            \* mintToMany: successful
    failed,                \* mintToMany: failed
    mintCalls,          \* mint transactions sent to the tier's tree, over all runs
    resultsFiles,          \* files written to results/, oldest first
    mintRuns,              \* number of times the script was started
    \* scripts/3-verify-builders.js main() and verifyAllParticipants
    verifyInput,           \* the list loaded from participants.json
    verifyPc,              \* ready, verifying, saving, done, exited
    verifyIdx,             \* position of the loop of verifyAllParticipants
    builders,
    nonBuilders,
    savedBuilders,         \* content of data/builders.json
    ledgerQueries,         \* getSignaturesForAddress requests issued, oldest first
    progressLog,           \* what onProgress was called with, oldest first
    \* checkWalletActivity(connection, walletAddress, startDate, endDate)
    walletAddress, startTime, endTime,
    signatures,            \* what getSignaturesForAddress answers
    activity,              \* the result of checkWalletActivity
    \* scripts/0-validate-data.js main() with --fix
    fixInput,              \* participants.json before the run
    savedParticipants,     \* participants.json after the run
    fixReport,             \* the report of the validation that follows
    \* the error listings of 0-validate-data.js and of the mint scripts
    reportScript,          \* which script prints
    reportErrors,          \* report.errors
    printedLines,          \* the lines of the error listing
    \* toCSV / parseCSV
    csvData, csvContent, csvRows,
    \* scripts/6-send-emails.js main()
    trackingFile,          \* results/email-tracking.json
    tracking,              \* the run's in-memory copy of it
    emailPc,               \* ready, sending
    emailQueue,            \* the part of allEmails not sent yet
    batchSent,             \* sendBatchEmails: sent
    batchFailed,           \* sendBatchEmails: failed
    delivered,             \* messages the mail service accepted, over all runs
    emailRuns,             \* number of times the script was started
    \* the rows of the Luma files read so far, in reading order
    lumaFileRows,
    \* normalizeName(name)
    rawName, normalized,
    \* isValidSolanaAddress(address), called on what validateWalletAddress gets
    solanaCheck,
    \* sendBatchEmails and the sendEmail call it is in
    sendPc,                \* ready, attempt, backoff, pause, returned
    sendBatch,             \* sendBatchEmails: emails
    sendAttempt,           \* sendEmail: attempt
    sendEvents,            \* requests and sleeps of the batch, oldest first
    sendResults            \* sendBatchEmails: results

consolidateVars == <<pc, walletData, walletsByName, registrationsByEmail, lumaRows,
                     regIdx, usedWallets, matched, reviewNeeded, missingWallets,
                     noEmail, allParticipants>>
similarityVars == <<str1, str2, simResult>>
addressVars == <<address, addressCheck>>
validateVars == <<participants, report>>
mintVars == <<tier, recipients, mintPc, mintIdx, successful, failed, mintCalls,
             resultsFiles, mintRuns>>
verifyVars == <<verifyInput, verifyPc, verifyIdx, builders, nonBuilders, savedBuilders,
               ledgerQueries, progressLog>>
activityVars == <<walletAddress, startTime, endTime, signatures, activity>>
fixVars == <<fixInput, savedParticipants, fixReport>>
reportVars == <<reportScript, reportErrors, printedLines>>
csvVars == <<csvData, csvContent, csvRows>>
emailVars == <<trackingFile, tracking, emailPc, emailQueue, batchSent, batchFailed,
              delivered, emailRuns>>
dataVars == <<consolidateVars, similarityVars, addressVars, validateVars>>
nameVars == <<rawName, normalized>>
sendVars == <<sendPc, sendBatch, sendAttempt, sendEvents, sendResults>>
libVars == <<lumaFileRows, nameVars, solanaCheck, sendVars>>
stageVars ==
    <<mintVars, verifyVars, activityVars, fixVars, reportVars, csvVars, emailVars, libVars>>
vars == <<dataVars, stageVars>>

----------------------------------------------------------------------------
(* Bounds of the model *)

MaxWallets == 2        \* wallet entries loaded
MaxLumaRows == 2       \* Luma rows (with an email) read
MaxStrLen == 3         \* length of the strings given to similarity
MaxAddrLen == 45       \* length of the repeated body of an address input
MaxParticipants == 2   \* entries of participants.json given to the validator

----------------------------------------------------------------------------
(* Text helpers: String.prototype.trim / toLowerCase and the regex classes *)

Whitespace == {" ", "\t", "\n"}

UpperLetters == <<"A","B","C","D","E","F","G","H","I","J","K","L","M",
                  "N","O","P","Q","R","S","T","U","V","W","X","Y","Z">>
LowerLetters == <<"a","b","c","d","e","f","g","h","i","j","k","l","m",
                  "n","o","p","q","r","s","t","u","v","w","x","y","z">>

Range(s) == {s[i] : i \in DOMAIN s}

ToLowerChar(c) ==
    IF c \in Range(UpperLetters)
    THEN LowerLetters[CHOOSE i \in DOMAIN UpperLetters : UpperLetters[i] = c]
    ELSE c

ToLowerCase(s) == [i \in 1..Len(s) |-> ToLowerChar(s[i])]

RECURSIVE TrimStart(_)
TrimStart(s) == IF s # <<>> /\ Head(s) \in Whitespace THEN TrimStart(Tail(s)) ELSE s

RECURSIVE TrimEnd(_)
TrimEnd(s) ==
    IF s # <<>> /\ s[Len(s)] \in Whitespace THEN TrimEnd(SubSeq(s, 1, Len(s) - 1)) ELSE s

Trim(s) == TrimEnd(TrimStart(s))

\* .replace(/\s+/g, ' '): every maximal run of whitespace becomes one space
CollapseWhitespace(s) ==
    LET starts(i) == s[i] \notin Whitespace \/ i = 1 \/ s[i-1] \notin Whitespace
        kept == SelectSeq([i \in 1..Len(s) |-> i], starts)
    IN  [k \in 1..Len(kept) |-> IF s[kept[k]] \in Whitespace THEN " " ELSE s[kept[k]]]

\* .replace(/[^a-z\s]/g, '')
RemoveNonAlpha(s) ==
    LET ok(c) == c \in Range(LowerLetters) \/ c \in Whitespace
    IN  SelectSeq(s, ok)

normalizeName(name) ==
    IF name = <<>> THEN <<>>
    ELSE RemoveNonAlpha(CollapseWhitespace(Trim(ToLowerCase(name))))

----------------------------------------------------------------------------
(* similarity(str1, str2): Levenshtein matrix, filled row by row.          *)
(* A score is the exact fraction <<numerator, denominator>>.               *)

Min3(a, b, c) == IF a <= b /\ a <= c THEN a ELSE IF b <= c THEN b ELSE c

Max2(a, b) == IF a >= b THEN a ELSE b

\* row i of the matrix from row i-1 (prev); a row holds columns 0..Len(s2) at 1..Len(s2)+1
RECURSIVE FillRow(_, _, _, _)
FillRow(prev, c, s2, acc) ==
    LET j == Len(acc)
    IN  IF j > Len(s2) THEN acc
        ELSE LET cost == IF c = s2[j] THEN 0 ELSE 1
             IN  FillRow(prev, c, s2,
                         Append(acc, Min3(prev[j + 1] + 1, acc[j] + 1, prev[j] + cost)))

RECURSIVE FillMatrix(_, _, _, _)
FillMatrix(s1, s2, i, prev) ==
    IF i > Len(s1) THEN prev
    ELSE FillMatrix(s1, s2, i + 1, FillRow(prev, s1[i], s2, <<i>>))

LevenshteinDistance(s1, s2) ==
    FillMatrix(s1, s2, 1, [j \in 1..(Len(s2) + 1) |-> j - 1])[Len(s2) + 1]

\* a mutant of similarity: the distance is divided by the first length
similarityByFirstLength(a, b) ==
    LET s1 == Trim(ToLowerCase(a))
        s2 == Trim(ToLowerCase(b))
    IN  IF s1 = s2 THEN <<1, 1>>
        ELSE IF Len(s1) = 0 \/ Len(s2) = 0 THEN <<0, 1>>
        ELSE <<Len(s1) - LevenshteinDistance(s1, s2), Len(s1)>>

similarity(a, b) ==
    LET s1 == Trim(ToLowerCase(a))
        s2 == Trim(ToLowerCase(b))
    IN  IF s1 = s2 THEN <<1, 1>>
        ELSE IF Len(s1) = 0 \/ Len(s2) = 0 THEN <<0, 1>>
        ELSE LET distance == LevenshteinDistance(s1, s2)
                 maxLen == Max2(Len(s1), Len(s2))
             IN  <<maxLen - distance, maxLen>>

\* comparisons of scores (denominators are positive)
ScoreGt(x, y) == x[1] * y[2] > y[1] * x[2]
ScoreGeq(x, y) == x[1] * y[2] >= y[1] * x[2]

\* a mutant of FUZZY_THRESHOLD: the review threshold used for acceptance
FuzzyThresholdLowered == <<70, 100>>

FUZZY_THRESHOLD == <<85, 100>>
REVIEW_THRESHOLD == <<7, 10>>

----------------------------------------------------------------------------
(* Input pools of the consolidation script.  Cells come out of parseCSV,   *)
(* which trims every cell.                                                 *)

WalletNamePool == { <<"j","o","h","n","s","o","n">>,
                    <<"J","o","h","n">>,
                    <<>> }
WalletAddrPool == { <<"W","1">>, <<"W","2">>, <<"N","i","l">>, <<>> }
EmailPool == { <<"p">>, <<"q">>, <<"Q">>, <<>> }
RegNamePool == { <<"J","O","H","N">>,
                 <<"j","o","n","n","s","o","n">>,
                 <<"j","o","n">>,
                 <<"z","e","d">> }
CampusPool == { "UNILAG" }
CheckedInPool == { "" }
StatusPool == { "approved" }

NIL == <<"n","i","l">>

----------------------------------------------------------------------------
(* main(), step 1: one row of the wallet file *)

HasKey(map, key) == \E k \in DOMAIN map : map[k].key = key

Lookup(map, key) == map[CHOOSE k \in DOMAIN map : map[k].key = key].idx

LoadWalletRow(name, wallet) ==
    /\ pc = "wallets"
    /\ Len(walletData) < MaxWallets
    /\ IF name = <<>> \/ wallet = <<>> \/ ToLowerCase(wallet) = NIL
       THEN UNCHANGED <<walletData, walletsByName>>
       ELSE LET normalizedName == normalizeName(name)
                entry == [name |-> Trim(name), normalizedName |-> normalizedName,
                          wallet |-> Trim(wallet)]
            IN  /\ walletData' = Append(walletData, entry)
                /\ walletsByName' =
                       IF HasKey(walletsByName, normalizedName)
                       THEN walletsByName
                       ELSE Append(walletsByName,
                                   [key |-> normalizedName, idx |-> Len(walletData) + 1])
    /\ UNCHANGED <<pc, registrationsByEmail, lumaRows, regIdx, usedWallets, matched,
                   reviewNeeded, missingWallets, noEmail, allParticipants>>

WalletsLoaded ==
    /\ pc = "wallets"
    /\ pc' = "luma"
    /\ UNCHANGED <<walletData, walletsByName, registrationsByEmail, lumaRows, regIdx,
                   usedWallets, matched, reviewNeeded, missingWallets, noEmail,
                   allParticipants>>

(* main(), step 2: one row of a Luma file *)

RegIndex(email) ==
    CHOOSE k \in DOMAIN registrationsByEmail : registrationsByEmail[k].email = email

LoadLumaRow(rawEmail, fullName, campus, checkedIn, status) ==
    /\ pc = "luma"
    /\ lumaRows < MaxLumaRows
    /\ LET email == ToLowerCase(Trim(rawEmail))
           attended == checkedIn # "" \/ status = "approved"
       IN  IF email = <<>>
           THEN UNCHANGED <<registrationsByEmail, lumaRows>>
           ELSE /\ lumaRows' = lumaRows + 1
                /\ IF \E k \in DOMAIN registrationsByEmail :
                          registrationsByEmail[k].email = email
                   THEN LET k == RegIndex(email)
                            existing == registrationsByEmail[k]
                        IN  registrationsByEmail' =
                              [registrationsByEmail EXCEPT ![k] =
                                 [existing EXCEPT
                                    !.campuses = IF campus \in Range(existing.campuses)
                                                 THEN existing.campuses
                                                 ELSE Append(existing.campuses, campus),
                                    !.daysAttended = existing.daysAttended + 1]]
                   ELSE registrationsByEmail' =
                          Append(registrationsByEmail,
                                 [name |-> Trim(fullName),
                                  normalizedName |-> normalizeName(fullName),
                                  email |-> email,
                                  campuses |-> <<campus>>,
                                  daysAttended |-> 1,
                                  attended |-> attended])
    /\ UNCHANGED <<pc, walletData, walletsByName, regIdx, usedWallets, matched,
                   reviewNeeded, missingWallets, noEmail, allParticipants>>

LumaLoaded ==
    /\ pc = "luma"
    /\ pc' = "match"
    /\ regIdx' = 1
    /\ UNCHANGED <<walletData, walletsByName, registrationsByEmail, lumaRows,
                   usedWallets, matched, reviewNeeded, missingWallets, noEmail,
                   allParticipants>>

----------------------------------------------------------------------------
(* main(), step 3: one iteration of the matching loop *)

\* the fuzzy scan: the best unconsumed entry of walletsByName, in insertion order;
\* idx = 0 stands for bestMatch = null
RECURSIVE FuzzyScan(_, _, _, _)
FuzzyScan(regName, used, k, best) ==
    IF k > Len(walletsByName) THEN best
    ELSE LET entry == walletData[walletsByName[k].idx]
             score == similarity(regName, walletsByName[k].key)
         IN  IF entry.wallet \in used
             THEN FuzzyScan(regName, used, k + 1, best)
             ELSE IF ScoreGt(score, best.score)
                  THEN FuzzyScan(regName, used, k + 1,
                                 [idx |-> walletsByName[k].idx, score |-> score])
                  ELSE FuzzyScan(regName, used, k + 1, best)

BestMatch(reg) == FuzzyScan(reg.normalizedName, usedWallets, 1, [idx |-> 0, score |-> <<0, 1>>])

\* the outcome of the loop body for one registration
MatchOutcome(reg) ==
    IF HasKey(walletsByName, reg.normalizedName)
    THEN [kind |-> "matched", idx |-> Lookup(walletsByName, reg.normalizedName),
          matchMethod |-> "exact", confidence |-> <<1, 1>>]
    ELSE LET best == BestMatch(reg)
         IN  IF best.idx # 0 /\ ScoreGeq(best.score, FUZZY_THRESHOLD)
             THEN [kind |-> "matched", idx |-> best.idx,
                   matchMethod |-> "fuzzy", confidence |-> best.score]
             ELSE IF best.idx # 0 /\ ScoreGeq(best.score, REVIEW_THRESHOLD)
             THEN [kind |-> "review", idx |-> best.idx,
                   matchMethod |-> "fuzzy", confidence |-> best.score]
             ELSE [kind |-> "missing", idx |-> 0,
                   matchMethod |-> "exact", confidence |-> <<0, 1>>]

MatchRegistration ==
    /\ pc = "match"
    /\ regIdx <= Len(registrationsByEmail)
    /\ LET reg == registrationsByEmail[regIdx]
           out == MatchOutcome(reg)
       IN  CASE out.kind = "review" ->
                  /\ reviewNeeded' = Append(reviewNeeded,
                         [lumaName |-> reg.name, lumaEmail |-> reg.email,
                          suggestedMatch |-> walletData[out.idx].name,
                          suggestedWallet |-> walletData[out.idx].wallet,
                          confidence |-> out.confidence,
                          campuses |-> reg.campuses])
                  /\ UNCHANGED <<matched, usedWallets, missingWallets>>
            [] out.kind = "matched" ->
                  /\ matched' = Append(matched,
                         [name |-> IF reg.name # <<>> THEN reg.name
                                   ELSE walletData[out.idx].name,
                          wallet |-> walletData[out.idx].wallet,
                          email |-> reg.email,
                          campus |-> reg.campuses[1],
                          campuses |-> reg.campuses,
                          daysAttended |-> reg.daysAttended,
                          matchMethod |-> out.matchMethod,
                          confidence |-> out.confidence])
                  /\ usedWallets' = usedWallets \cup {walletData[out.idx].wallet}
                  /\ UNCHANGED <<reviewNeeded, missingWallets>>
            [] out.kind = "missing" ->
                  /\ missingWallets' = Append(missingWallets,
                         [name |-> reg.name, email |-> reg.email,
                          campuses |-> reg.campuses,
                          daysAttended |-> reg.daysAttended])
                  /\ UNCHANGED <<matched, usedWallets, reviewNeeded>>
    /\ regIdx' = regIdx + 1
    /\ UNCHANGED <<pc, walletData, walletsByName, registrationsByEmail, lumaRows,
                   noEmail, allParticipants>>

(* main(): wallets with no Luma registration *)

\* a mutant of WalkInPass: the usedWallets test is left out
WalkInPassUnfiltered ==
    /\ pc = "match"
    /\ regIdx > Len(registrationsByEmail)
    /\ noEmail' = [k \in 1..Len(walletData) |-> [name |-> walletData[k].name,
                                                  wallet |-> walletData[k].wallet]]
    /\ pc' = "write"
    /\ UNCHANGED <<walletData, walletsByName, registrationsByEmail, lumaRows, regIdx,
                   usedWallets, matched, reviewNeeded, missingWallets, allParticipants>>

WalkInPass ==
    /\ pc = "match"
    /\ regIdx > Len(registrationsByEmail)
    /\ noEmail' = LET unused(entry) == entry.wallet \notin usedWallets
                      left == SelectSeq(walletData, unused)
                  IN  [k \in 1..Len(left) |-> [name |-> left[k].name,
                                               wallet |-> left[k].wallet]]
    /\ pc' = "write"
    /\ UNCHANGED <<walletData, walletsByName, registrationsByEmail, lumaRows, regIdx,
                   usedWallets, matched, reviewNeeded, missingWallets, allParticipants>>

(* main(), step 5: participants.json *)

WALK_IN == "WALK-IN"

WriteParticipants ==
    /\ pc = "write"
    /\ allParticipants' =
           [k \in 1..Len(matched) |->
               [name |-> matched[k].name, wallet |-> matched[k].wallet,
                email |-> matched[k].email, campus |-> matched[k].campus]]
           \o [k \in 1..Len(noEmail) |->
               [name |-> noEmail[k].name, wallet |-> noEmail[k].wallet,
                email |-> <<>>, campus |-> WALK_IN]]
    /\ pc' = "done"
    /\ UNCHANGED <<walletData, walletsByName, registrationsByEmail, lumaRows, regIdx,
                   usedWallets, matched, reviewNeeded, missingWallets, noEmail>>

----------------------------------------------------------------------------
(* The consolidation run *)

ConsolidateInit ==
    /\ pc = "wallets"
    /\ walletData = <<>>
    /\ walletsByName = <<>>
    /\ registrationsByEmail = <<>>
    /\ lumaRows = 0
    /\ regIdx = 0
    /\ usedWallets = {}
    /\ matched = <<>>
    /\ reviewNeeded = <<>>
    /\ missingWallets = <<>>
    /\ noEmail = <<>>
    /\ allParticipants = <<>>

ConsolidateIdle ==
    /\ pc = "idle"
    /\ walletData = <<>>
    /\ walletsByName = <<>>
    /\ registrationsByEmail = <<>>
    /\ lumaRows = 0
    /\ regIdx = 0
    /\ usedWallets = {}
    /\ matched = <<>>
    /\ reviewNeeded = <<>>
    /\ missingWallets = <<>>
    /\ noEmail = <<>>
    /\ allParticipants = <<>>

SimilarityIdle == str1 = <<>> /\ str2 = <<>> /\ simResult = <<>>
AddressIdle == address = [kind |-> "null"] /\ addressCheck = [status |-> "none"]
ValidateIdle == participants = <<>> /\ report = [status |-> "none"]

MintIdle ==
    /\ tier = "none" /\ recipients = <<>> /\ mintPc = "idle" /\ mintIdx = 0
    /\ successful = <<>> /\ failed = <<>> /\ mintCalls = <<>>
    /\ resultsFiles = <<>> /\ mintRuns = 0

VerifyIdle ==
    /\ verifyInput = <<>> /\ verifyPc = "idle" /\ verifyIdx = 0
    /\ builders = <<>> /\ nonBuilders = <<>> /\ savedBuilders = [status |-> "none"]
    /\ ledgerQueries = <<>> /\ progressLog = <<>>

ActivityIdle ==
    /\ walletAddress = <<>> /\ startTime = 0 /\ endTime = 0
    /\ signatures = [status |-> "none"] /\ activity = [status |-> "none"]

FixIdle ==
    fixInput = <<>> /\ savedParticipants = <<>> /\ fixReport = [status |-> "none"]

ReportIdle == reportScript = "none" /\ reportErrors = <<>> /\ printedLines = <<>>

CsvIdle == csvData = <<>> /\ csvContent = <<>> /\ csvRows = [status |-> "none"]

EmailIdle ==
    /\ trackingFile = [status |-> "none"] /\ tracking = [status |-> "none"]
    /\ emailPc = "idle" /\ emailQueue = <<>> /\ batchSent = <<>> /\ batchFailed = <<>>
    /\ delivered = <<>> /\ emailRuns = 0

DataIdle == ConsolidateIdle /\ SimilarityIdle /\ AddressIdle /\ ValidateIdle

NameIdle == rawName = <<>> /\ normalized = [status |-> "none"]

AgreeIdle == solanaCheck = [status |-> "none"]

SendIdle ==
    /\ sendPc = "idle" /\ sendBatch = <<>> /\ sendAttempt = 0 /\ sendEvents = <<>>
    /\ sendResults = [status |-> "none"]

LumaFilesIdle == lumaFileRows = <<>>

LibIdle == LumaFilesIdle /\ NameIdle /\ AgreeIdle /\ SendIdle

StagesIdleButLib ==
    MintIdle /\ VerifyIdle /\ ActivityIdle /\ FixIdle /\ ReportIdle /\ CsvIdle /\ EmailIdle

StagesIdle == StagesIdleButLib /\ LibIdle

Init == ConsolidateInit /\ SimilarityIdle /\ AddressIdle /\ ValidateIdle /\ StagesIdle

Next ==
    \/ \E name \in WalletNamePool, wallet \in WalletAddrPool :
          LoadWalletRow(name, wallet) /\ UNCHANGED <<similarityVars, addressVars, validateVars, stageVars>>
    \/ WalletsLoaded /\ UNCHANGED <<similarityVars, addressVars, validateVars, stageVars>>
    \/ \E rawEmail \in EmailPool, fullName \in RegNamePool, campus \in CampusPool,
          checkedIn \in CheckedInPool, status \in StatusPool :
          LoadLumaRow(rawEmail, fullName, campus, checkedIn, status)
            /\ UNCHANGED <<similarityVars, addressVars, validateVars, stageVars>>
    \/ LumaLoaded /\ UNCHANGED <<similarityVars, addressVars, validateVars, stageVars>>
    \/ MatchRegistration /\ UNCHANGED <<similarityVars, addressVars, validateVars, stageVars>>
    \/ WalkInPass /\ UNCHANGED <<similarityVars, addressVars, validateVars, stageVars>>
    \/ WriteParticipants /\ UNCHANGED <<similarityVars, addressVars, validateVars, stageVars>>

Spec == Init /\ [][Next]_vars

----------------------------------------------------------------------------
(* Claims about the consolidation run *)

Wallets(list) == {list[k].wallet : k \in DOMAIN list}

\* C1: the participant list written by the consolidation step (matched
\* participants followed by walk-ins) holds no two entries with the same
\* wallet address.
WrittenWalletsUnique ==
    pc = "done" =>
        \A i, j \in DOMAIN allParticipants :
            i # j => allParticipants[i].wallet # allParticipants[j].wallet

\* C2: matching is injective from wallets to registrations: no wallet address
\* is assigned to two registrations, so a registration whose canonical name
\* equals the name of an already consumed wallet yields no second Participant
\* for that wallet.
MatchingInjective ==
    \A i, j \in DOMAIN matched :
        i # j => matched[i].wallet # matched[j].wallet

\* the wallet entries the fuzzy step may pick: first per canonical name, not consumed
Candidates ==
    {k \in DOMAIN walletsByName : walletData[walletsByName[k].idx].wallet \notin usedWallets}

\* the best score s over the candidates satisfies 0.70 <= s < 0.85
InReviewBand(reg) ==
    /\ ~ HasKey(walletsByName, reg.normalizedName)
    /\ \E k \in Candidates :
          ScoreGeq(similarity(reg.normalizedName, walletsByName[k].key), <<70, 100>>)
    /\ \A k \in Candidates :
          ~ ScoreGeq(similarity(reg.normalizedName, walletsByName[k].key), <<85, 100>>)

ReviewEmailsNotParticipants ==
    \A r \in DOMAIN reviewNeeded :
        /\ \A m \in DOMAIN matched : matched[m].email # reviewNeeded[r].lumaEmail
        /\ \A a \in DOMAIN allParticipants :
              allParticipants[a].email # reviewNeeded[r].lumaEmail

WalkInsAreTheUnconsumed ==
    pc = "done" =>
        LET walkIns == SelectSeq(allParticipants, LAMBDA p : p.email = <<>>)
            unconsumed == SelectSeq(walletData, LAMBDA e : e.wallet \notin usedWallets)
        IN  /\ Len(walkIns) = Len(unconsumed)
            /\ \A k \in DOMAIN unconsumed :
                  walkIns[k] = [name |-> unconsumed[k].name,
                                wallet |-> unconsumed[k].wallet,
                                email |-> <<>>, campus |-> "WALK-IN"]
            /\ \A k \in DOMAIN walkIns : walkIns[k].wallet \notin usedWallets
            /\ Wallets(walletData) \subseteq Wallets(allParticipants)

\* C4 witness: a finished run with a consumed wallet and a walk-in.
WalkInBesideMatch ==
    /\ pc = "done"
    /\ Len(matched) > 0
    /\ Len(noEmail) > 0

----------------------------------------------------------------------------
(* similarity() as a unit: the arguments are drawn, then the call is made  *)

SimAlphabet == {"a", "b", " "}

SimStrings == UNION {[1..n -> SimAlphabet] : n \in 0..MaxStrLen}

SimilarityInit ==
    /\ str1 \in SimStrings
    /\ str2 \in SimStrings
    /\ simResult = <<>>

CallSimilarity ==
    /\ simResult = <<>>
    /\ simResult' = similarity(str1, str2)
    /\ UNCHANGED <<str1, str2>>

InitSim == ConsolidateIdle /\ SimilarityInit /\ AddressIdle /\ ValidateIdle /\ StagesIdle

NextSim ==
    CallSimilarity /\ UNCHANGED <<consolidateVars, addressVars, validateVars, stageVars>>

SpecSim == InitSim /\ [][NextSim]_vars

\* a canonical name: letters a-z and single spaces, no space at either end
Canonical(s) ==
    /\ \A i \in DOMAIN s : s[i] \in Range(LowerLetters) \cup {" "}
    /\ \A i \in DOMAIN s : s[i] = " " => (i > 1 /\ i < Len(s) /\ s[i + 1] # " ")

\* the edit distance by its recursive definition (unit-cost insert, delete, substitute)
RECURSIVE EditDistance(_, _)
EditDistance(a, b) ==
    IF a = <<>> THEN Len(b)
    ELSE IF b = <<>> THEN Len(a)
    ELSE IF Head(a) = Head(b) THEN EditDistance(Tail(a), Tail(b))
    ELSE 1 + Min3(EditDistance(Tail(a), b), EditDistance(a, Tail(b)),
                  EditDistance(Tail(a), Tail(b)))

ScoreEq(x, y) == x[1] * y[2] = y[1] * x[2]

\* C5: for canonical a and b, similarity(a,b) = 1 - editDistance(a,b)/max(len a, len b)
\* and lies in [0,1]; it is symmetric; similarity(a,a) = 1 (also for "");
\* similarity("",x) = 0 for non-empty x.
SimilarityContract ==
    (simResult # <<>> /\ Canonical(str1) /\ Canonical(str2)) =>
        LET maxLen == Max2(Len(str1), Len(str2))
        IN  /\ simResult[2] > 0 /\ 0 <= simResult[1] /\ simResult[1] <= simResult[2]
            /\ maxLen > 0 =>
                  ScoreEq(simResult, <<maxLen - EditDistance(str1, str2), maxLen>>)
            /\ ScoreEq(simResult, similarity(str2, str1))
            /\ str1 = str2 => ScoreEq(simResult, <<1, 1>>)
            /\ (str1 = <<>> /\ str2 # <<>>) => ScoreEq(simResult, <<0, 1>>)
            /\ (str2 = <<>> /\ str1 # <<>>) => ScoreEq(simResult, <<0, 1>>)

\* C5 witness: a score strictly between 0 and 1 for two canonical strings of
\* different lengths.
SimilarityPartial ==
    /\ simResult # <<>>
    /\ Canonical(str1) /\ Canonical(str2)
    /\ Len(str1) # Len(str2)
    /\ simResult[1] > 0 /\ simResult[1] < simResult[2]

----------------------------------------------------------------------------
(* validateWalletAddress(address), src/merkle-tree.js                      *)

ADDRESS_MIN_LENGTH == 32
ADDRESS_MAX_LENGTH == 44

Digits19 == {"1", "2", "3", "4", "5", "6", "7", "8", "9"}

LetterRange(letters, from, to) ==
    LET lo == CHOOSE i \in DOMAIN letters : letters[i] = from
        hi == CHOOSE i \in DOMAIN letters : letters[i] = to
    IN  {letters[i] : i \in lo..hi}

\* the character class [1-9A-HJ-NP-Za-km-z]
Base58Class ==
    Digits19 \cup LetterRange(UpperLetters, "A", "H") \cup LetterRange(UpperLetters, "J", "N")
             \cup LetterRange(UpperLetters, "P", "Z") \cup LetterRange(LowerLetters, "a", "k")
             \cup LetterRange(LowerLetters, "m", "z")

\* /^[1-9A-HJ-NP-Za-km-z]+$/.test(s)
base58RegexTest(s) == Len(s) >= 1 /\ \A i \in DOMAIN s : s[i] \in Base58Class

\* a value is [kind |-> "null"], [kind |-> "number"] or [kind |-> "string", text |-> ...]
IsFalsy(v) == v.kind = "null" \/ (v.kind = "string" /\ v.text = <<>>)

\* a mutant of validateWalletAddress: the upper length test is off by one
validateWalletAddressOffByOne(v) ==
    IF IsFalsy(v) \/ v.kind # "string"
    THEN [valid |-> FALSE, error |-> "Missing or invalid wallet address"]
    ELSE IF Trim(v.text) # v.text
    THEN [valid |-> FALSE, error |-> "Wallet address has leading/trailing whitespace"]
    ELSE IF Len(v.text) < ADDRESS_MIN_LENGTH \/ Len(v.text) >= ADDRESS_MAX_LENGTH
    THEN [valid |-> FALSE, error |-> "Invalid length"]
    ELSE IF ~ base58RegexTest(v.text)
    THEN [valid |-> FALSE, error |-> "Contains invalid characters (not valid base58)"]
    ELSE [valid |-> TRUE, error |-> ""]

validateWalletAddress(v) ==
    IF IsFalsy(v) \/ v.kind # "string"
    THEN [valid |-> FALSE, error |-> "Missing or invalid wallet address"]
    ELSE IF Trim(v.text) # v.text
    THEN [valid |-> FALSE, error |-> "Wallet address has leading/trailing whitespace"]
    ELSE IF Len(v.text) < ADDRESS_MIN_LENGTH \/ Len(v.text) > ADDRESS_MAX_LENGTH
    THEN [valid |-> FALSE, error |-> "Invalid length"]
    ELSE IF ~ base58RegexTest(v.text)
    THEN [valid |-> FALSE, error |-> "Contains invalid characters (not valid base58)"]
    ELSE [valid |-> TRUE, error |-> ""]

Str(text) == [kind |-> "string", text |-> text]

Repeat(c, n) == [i \in 1..n |-> c]

\* address inputs: a head, a body of one repeated character, a tail
AddrHeads == { <<>>, <<" ">>, <<"0">>, <<"9">> }
AddrBodies == { "A", "z", "O", "l" }
AddrTails == { <<>>, <<"\n">>, <<"I">>, <<"I", "z">>, <<" ", "z">>, <<"k">> }

AddressInputs ==
    { [kind |-> "null"], [kind |-> "number"] }
    \cup { Str(h \o Repeat(b, n) \o t) :
              h \in AddrHeads, b \in AddrBodies, t \in AddrTails, n \in 0..MaxAddrLen }

AddressInit ==
    /\ address \in AddressInputs
    /\ addressCheck = [status |-> "none"]

CallValidateWalletAddress ==
    /\ addressCheck = [status |-> "none"]
    /\ addressCheck' = validateWalletAddress(address)
    /\ UNCHANGED address

InitAddr == ConsolidateIdle /\ SimilarityIdle /\ AddressInit /\ ValidateIdle /\ StagesIdle

NextAddr ==
    /\ CallValidateWalletAddress
    /\ UNCHANGED <<consolidateVars, similarityVars, validateVars, stageVars>>

SpecAddr == InitAddr /\ [][NextAddr]_vars

\* the base-58 alphabet as the claim states it: digits and letters without 0, O, I, l
Base58Alphabet ==
    ({"0"} \cup Digits19 \cup Range(UpperLetters) \cup Range(LowerLetters))
        \ {"0", "O", "I", "l"}

\* C6: validateWalletAddress(p).valid is true iff p is text, its length is in
\* [32,44], every character is in the base-58 alphabet, and it has no leading
\* or trailing whitespace.
AddressValidIff ==
    "valid" \in DOMAIN addressCheck =>
        (addressCheck.valid <=>
            /\ address.kind = "string"
            /\ Len(address.text) >= 32 /\ Len(address.text) <= 44
            /\ \A i \in DOMAIN address.text : address.text[i] \in Base58Alphabet
            /\ (address.text = <<>> \/
                  (address.text[1] \notin Whitespace
                     /\ address.text[Len(address.text)] \notin Whitespace)))

\* C6 witness: a 44-character address accepted.
AddressAccepted44 ==
    /\ "valid" \in DOMAIN addressCheck
    /\ addressCheck.valid
    /\ Len(address.text) = 44

----------------------------------------------------------------------------
(* validateEmail, validateParticipant, findDuplicates and                  *)
(* validateAllParticipants, src/merkle-tree.js.  A participant is a record *)
(* with any of the fields wallet, email, name; an absent field is          *)
(* undefined.  A message is [row, text]: the code writes "Row <row>: <text>". *)

\* JavaScript truthiness of a field that is a string or undefined
Truthy(p, f) == f \in DOMAIN p /\ p[f] # <<>>

\* /^[^\s@]+@[^\s@]+\.[^\s@]+$/.test(s)
emailRegexTest(s) ==
    LET plain(from, to) == \A k \in from..to : s[k] \notin Whitespace /\ s[k] # "@"
    IN  \E i \in 2..Len(s) : \E j \in (i + 2)..(Len(s) - 1) :
            /\ s[i] = "@"
            /\ s[j] = "."
            /\ plain(1, i - 1)
            /\ plain(i + 1, j - 1)
            /\ plain(j + 1, Len(s))

\* validateEmail(p.email)
validateEmail(p) ==
    IF ~ Truthy(p, "email") \/ Trim(p.email) = <<>>
    THEN [valid |-> TRUE, missing |-> TRUE, error |-> ""]
    ELSE IF ~ emailRegexTest(Trim(p.email))
    THEN [valid |-> FALSE, missing |-> FALSE, error |-> "Invalid email format"]
    ELSE [valid |-> TRUE, missing |-> FALSE, error |-> ""]

WalletErrors(p, rowNum) ==
    IF ~ Truthy(p, "wallet")
    THEN << [row |-> rowNum, text |-> "Missing wallet address"] >>
    ELSE LET walletCheck == validateWalletAddress(Str(p.wallet))
         IN  IF ~ walletCheck.valid
             THEN << [row |-> rowNum, text |-> walletCheck.error] >>
             ELSE <<>>

NameWarnings(p, rowNum) ==
    IF ~ Truthy(p, "name") \/ Trim(p.name) = <<>>
    THEN << [row |-> rowNum, text |-> "No name provided"] >>
    ELSE <<>>

\* a mutant of validateParticipant: a bad email format is pushed to errors
validateParticipantEmailError(p, index) ==
    LET rowNum == index + 1
        bad == Truthy(p, "email") /\ ~ validateEmail(p).valid
        errors == WalletErrors(p, rowNum)
                  \o (IF bad THEN << [row |-> rowNum, text |-> "Invalid email format"] >>
                      ELSE <<>>)
        warnings == (IF ~ Truthy(p, "email")
                     THEN << [row |-> rowNum, text |-> "No email address"] >>
                     ELSE <<>>)
                    \o NameWarnings(p, rowNum)
    IN  [valid |-> Len(errors) = 0, errors |-> errors, warnings |-> warnings]

\* a mutant of validateParticipant: a record with a warning is not valid
validateParticipantStrict(p, index) ==
    LET rowNum == index + 1
        errors == WalletErrors(p, rowNum)
        warnings == (IF Truthy(p, "email")
                     THEN IF ~ validateEmail(p).valid
                          THEN << [row |-> rowNum, text |-> "Invalid email format"] >>
                          ELSE <<>>
                     ELSE << [row |-> rowNum, text |-> "No email address"] >>)
                    \o NameWarnings(p, rowNum)
    IN  [valid |-> Len(errors) = 0 /\ Len(warnings) = 0,
         errors |-> errors, warnings |-> warnings]

validateParticipant(p, index) ==
    LET rowNum == index + 1
        errors == WalletErrors(p, rowNum)
        warnings == (IF Truthy(p, "email")
                     THEN IF ~ validateEmail(p).valid
                          THEN << [row |-> rowNum, text |-> "Invalid email format"] >>
                          ELSE <<>>
                     ELSE << [row |-> rowNum, text |-> "No email address"] >>)
                    \o NameWarnings(p, rowNum)
    IN  [valid |-> Len(errors) = 0, errors |-> errors, warnings |-> warnings]

\* the key of the walletMap
WalletKey(wallet) == ToLowerCase(Trim(wallet))

\* the walletMap after the first n participants: entries in insertion order
\* (keys[n] is the key of participant n)
RECURSIVE GroupByWallet(_, _, _)
GroupByWallet(ps, keys, n) ==
    IF n = 0 THEN <<>>
    ELSE LET map == GroupByWallet(ps, keys, n - 1)
             p == ps[n]
         IN  IF ~ Truthy(p, "wallet") THEN map
             ELSE LET wallet == keys[n]
                      name == IF Truthy(p, "name") THEN p.name
                              ELSE <<"U","n","k","n","o","w","n">>
                  IN  IF \E k \in DOMAIN map : map[k].key = wallet
                      THEN LET k == CHOOSE k \in DOMAIN map : map[k].key = wallet
                           IN  [map EXCEPT ![k] =
                                  [@ EXCEPT !.indices = Append(@, n),
                                            !.names = Append(@, name)]]
                      ELSE Append(map, [key |-> wallet, originalWallet |-> p.wallet,
                                        indices |-> <<n>>, names |-> <<name>>])

DuplicateClusters(map) ==
    LET more == SelectSeq(map, LAMBDA data : Len(data.indices) > 1)
    IN  [k \in 1..Len(more) |-> [wallet |-> more[k].originalWallet,
                                 indices |-> more[k].indices,
                                 names |-> more[k].names]]

\* a mutant of findDuplicates: the key is not lower-cased
findDuplicatesCaseSensitive(ps) ==
    LET keys == [i \in DOMAIN ps |->
                    IF Truthy(ps[i], "wallet") THEN Trim(ps[i].wallet) ELSE <<>>]
    IN  DuplicateClusters(GroupByWallet(ps, keys, Len(ps)))

findDuplicates(ps) ==
    LET keys == [i \in DOMAIN ps |->
                    IF Truthy(ps[i], "wallet") THEN WalletKey(ps[i].wallet) ELSE <<>>]
    IN  DuplicateClusters(GroupByWallet(ps, keys, Len(ps)))

Count(S) == Cardinality(S)

RECURSIVE Flatten(_)
Flatten(seqs) == IF seqs = <<>> THEN <<>> ELSE Head(seqs) \o Flatten(Tail(seqs))

validateAllParticipants(ps) ==
    IF Len(ps) = 0
    THEN [total |-> 0, valid |-> 0, invalid |-> 0,
          errors |-> << [row |-> 0, text |-> "No participants found or invalid data format"] >>,
          warnings |-> <<>>, duplicates |-> <<>>, withEmail |-> 0, withoutEmail |-> 0,
          summary |-> [empty |-> TRUE]]
    ELSE LET results == [i \in 1..Len(ps) |-> validateParticipant(ps[i], i - 1)]
             valid == Count({i \in DOMAIN ps : results[i].valid})
             invalid == Count({i \in DOMAIN ps : ~ results[i].valid})
             errors == Flatten([i \in 1..Len(ps) |-> results[i].errors])
             warnings == Flatten([i \in 1..Len(ps) |-> results[i].warnings])
             withEmail == Count({i \in DOMAIN ps :
                                   Truthy(ps[i], "email") /\ Trim(ps[i].email) # <<>>})
             withoutEmail == Count({i \in DOMAIN ps :
                                   ~ (Truthy(ps[i], "email") /\ Trim(ps[i].email) # <<>>)})
             duplicates == findDuplicates(ps)
         IN  [total |-> Len(ps), valid |-> valid, invalid |-> invalid,
              errors |-> errors, warnings |-> warnings, duplicates |-> duplicates,
              withEmail |-> withEmail, withoutEmail |-> withoutEmail,
              summary |-> [totalEntries |-> Len(ps), validEntries |-> valid,
                           invalidEntries |-> invalid,
                           duplicateWallets |-> Len(duplicates),
                           withEmail |-> withEmail, withoutEmail |-> withoutEmail,
                           errorCount |-> Len(errors), warningCount |-> Len(warnings)]]

\* the gate of scripts/0-validate-data.js and of the mint scripts
GatePasses(r) == Len(r.errors) = 0 /\ Len(r.duplicates) = 0

----------------------------------------------------------------------------
(* The validator as a unit: a participant list is drawn, then validated    *)

ABSENT == <<"undefined">>

ValidWallet == Repeat("A", ADDRESS_MIN_LENGTH)

WalletFieldPool == { ABSENT,
                     ValidWallet,
                     Repeat("a", ADDRESS_MIN_LENGTH),
                     <<" ">> \o ValidWallet,
                     <<"B", "0">> }
EmailFieldPool == { ABSENT,
                    <<>>,
                    <<" ">>,
                    <<"a", "@", "b", ".", "c">>,
                    <<"a", "@", "b">> }
NameFieldPool == { ABSENT, <<"N">> }

MakeParticipant(w, e, n) ==
    LET full == [wallet |-> w, email |-> e, name |-> n]
        present == {f \in DOMAIN full : full[f] # ABSENT}
    IN  [f \in present |-> full[f]]

ParticipantPool ==
    { MakeParticipant(w, e, n) :
          w \in WalletFieldPool, e \in EmailFieldPool, n \in NameFieldPool }

ValidateInit ==
    /\ participants \in UNION {[1..n -> ParticipantPool] : n \in 0..MaxParticipants}
    /\ report = [status |-> "none"]

CallValidateAll ==
    /\ report = [status |-> "none"]
    /\ report' = validateAllParticipants(participants)
    /\ UNCHANGED participants

InitValidate == ConsolidateIdle /\ SimilarityIdle /\ AddressIdle /\ ValidateInit /\ StagesIdle

NextValidate ==
    CallValidateAll /\ UNCHANGED <<consolidateVars, similarityVars, addressVars, stageVars>>

SpecValidate == InitValidate /\ [][NextValidate]_vars

----------------------------------------------------------------------------
(* Claims about the validator *)

Validated == "errors" \in DOMAIN report /\ Len(participants) > 0

RowsWithError == {i \in DOMAIN participants :
                     \E e \in DOMAIN report.errors : report.errors[e].row = i}

WarningsOf(i, text) ==
    {w \in DOMAIN report.warnings :
        report.warnings[w].row = i /\ report.warnings[w].text = text}

\* C7: for a non-empty list, a record is counted invalid iff it contributed
\* at least one error message (warnings alone never make it invalid), and
\* valid + invalid = total, withEmail + withoutEmail = total.
InvalidIffError ==
    Validated =>
        /\ report.total = Len(participants)
        /\ report.invalid = Cardinality(RowsWithError)
        /\ report.valid = Cardinality(DOMAIN participants \ RowsWithError)
        /\ \A i \in DOMAIN participants :
              validateParticipant(participants[i], i - 1).valid <=> i \notin RowsWithError
        /\ report.valid + report.invalid = report.total
        /\ report.withEmail + report.withoutEmail = report.total

\* C7 witness: a report with an invalid record and a valid record that has a warning.
WarnedButValid ==
    /\ Validated
    /\ report.invalid = 1
    /\ \E i \in DOMAIN participants :
          /\ i \notin RowsWithError
          /\ \E w \in DOMAIN report.warnings : report.warnings[w].row = i

WalletOk(p) == Truthy(p, "wallet") /\ validateWalletAddress(Str(p.wallet)).valid

NonBlankBadEmail(p) ==
    /\ Truthy(p, "email")
    /\ Trim(p.email) # <<>>
    /\ ~ emailRegexTest(Trim(p.email))

EmailMissing(p) == ~ Truthy(p, "email") \/ Trim(p.email) = <<>>

\* C9: every record whose email is empty, absent or blank after trimming gets
\* exactly one missing-email warning and no email error, so the number of
\* missing-email warnings equals summary.withoutEmail.
MissingEmailWarned ==
    Validated =>
        /\ \A i \in DOMAIN participants :
              EmailMissing(participants[i]) =>
                 /\ Cardinality(WarningsOf(i, "No email address")) = 1
                 /\ \A e \in DOMAIN report.errors :
                       report.errors[e].row = i =>
                          report.errors[e].text # "Invalid email format"
        /\ Cardinality({w \in DOMAIN report.warnings :
                           report.warnings[w].text = "No email address"})
              = report.summary.withoutEmail

AddressKeys == {ToLowerCase(Trim(participants[i].wallet)) :
                   i \in {j \in DOMAIN participants : Truthy(participants[j], "wallet")}}

\* the rows (1-based, ascending) whose trimmed, lower-cased address is key
Members(key) ==
    SelectSeq([i \in 1..Len(participants) |-> i],
              LAMBDA i : Truthy(participants[i], "wallet")
                         /\ ToLowerCase(Trim(participants[i].wallet)) = key)

DisplayName(p) == IF Truthy(p, "name") THEN p.name ELSE <<"U","n","k","n","o","w","n">>

----------------------------------------------------------------------------
(***************************************************************************)
(* The minting scripts: scripts/4-mint-participation.js and                *)
(* scripts/5-mint-builders.js run the same steps over their own list and   *)
(* their own tree: load, validate, gate, confirm, mintToMany, save results.*)
(* The script may be started again after it has ended.                     *)
(***************************************************************************)

MaxMintRuns == 2       \* times a mint script is started

Field(p, f) == IF f \in DOMAIN p THEN p[f] ELSE ABSENT

\* a mutant of isValidSolanaAddress: surrounding whitespace is trimmed away first
isValidSolanaAddressTrimming(addr) ==
    /\ addr # ABSENT
    /\ Trim(addr) # <<>>
    /\ Len(Trim(addr)) >= 32
    /\ Len(Trim(addr)) <= 44
    /\ \A i \in DOMAIN Trim(addr) : Trim(addr)[i] \in Base58Class

\* utils.js: /^[1-9A-HJ-NP-Za-km-z]{32,44}$/.test(address), without trimming
isValidSolanaAddress(addr) ==
    /\ addr # ABSENT
    /\ addr # <<>>
    /\ Len(addr) >= 32
    /\ Len(addr) <= 44
    /\ \A i \in DOMAIN addr : addr[i] \in Base58Class

OtherWallet == Repeat("B", ADDRESS_MIN_LENGTH)

RecipientPool ==
    { MakeParticipant(ValidWallet, ABSENT, <<"N">>),
      MakeParticipant(ToLowerCase(ValidWallet), ABSENT, <<"N">>),
      MakeParticipant(OtherWallet, ABSENT, <<"N">>),
      MakeParticipant(<<" ">> \o OtherWallet, ABSENT, <<"N">>),
      MakeParticipant(<<"B", "0">>, ABSENT, <<"N">>) }

MintInit ==
    /\ tier \in {"participation", "builder"}
    /\ recipients \in UNION {[1..n -> RecipientPool] : n \in 0..MaxParticipants}
    /\ mintPc = "ready"
    /\ mintIdx = 0
    /\ successful = <<>>
    /\ failed = <<>>
    /\ mintCalls = <<>>
    /\ resultsFiles = <<>>
    /\ mintRuns = 0

\* a mutant of MintGate: duplicate wallets do not stop the run
MintGateErrorsOnly(validation) ==
    IF Len(validation.errors) > 0 THEN "errors" ELSE "pass"

\* the two exits that follow validateAllParticipants
MintGate(validation) ==
    IF Len(validation.errors) > 0 THEN "errors"
    ELSE IF Len(validation.duplicates) > 0 THEN "duplicates"
    ELSE "pass"

\* main() up to the gate: load the list, validate it, exit(1) or go on
StartMintRun ==
    /\ mintPc \in {"ready", "saved", "exited"}
    /\ mintRuns < MaxMintRuns
    /\ mintRuns' = mintRuns + 1
    /\ mintIdx' = 1
    /\ successful' = <<>>
    /\ failed' = <<>>
    /\ mintPc' = IF Len(recipients) = 0 THEN "exited"
                 ELSE IF MintGate(validateAllParticipants(recipients)) # "pass" THEN "exited"
                 ELSE "confirm"
    /\ UNCHANGED <<tier, recipients, mintCalls, resultsFiles>>

\* main(): --dry-run exits after the preview, a refused confirmation exits
ConfirmMint(isDryRun, proceed) ==
    /\ mintPc = "confirm"
    /\ mintPc' = IF isDryRun \/ ~ proceed THEN "exited" ELSE "minting"
    /\ UNCHANGED <<tier, recipients, mintIdx, successful, failed, mintCalls,
                   resultsFiles, mintRuns>>

\* a mutant of MintOne: the loop ends at the first failure
MintOneStopsAtFailure(confirmed) ==
    /\ mintPc = "minting"
    /\ mintIdx <= Len(recipients)
    /\ LET recipient == recipients[mintIdx]
           wallet == Field(recipient, "wallet")
       IN  IF ~ isValidSolanaAddress(wallet)
           THEN /\ failed' = Append(failed, [recipient |-> recipient,
                                             error |-> "Invalid wallet address"])
                /\ mintIdx' = Len(recipients) + 1
                /\ UNCHANGED <<successful, mintCalls>>
           ELSE /\ mintCalls' = Append(mintCalls, [tier |-> tier, wallet |-> wallet,
                                                   confirmed |-> confirmed])
                /\ IF confirmed
                   THEN /\ successful' = Append(successful, [recipient |-> recipient,
                                                             signature |-> Len(mintCalls) + 1])
                        /\ mintIdx' = mintIdx + 1
                        /\ UNCHANGED failed
                   ELSE /\ failed' = Append(failed, [recipient |-> recipient,
                                                     error |-> "Transaction failed"])
                        /\ mintIdx' = Len(recipients) + 1
                        /\ UNCHANGED successful
    /\ UNCHANGED <<tier, recipients, mintPc, resultsFiles, mintRuns>>

\* one iteration of mintToMany: mintCompressedNFT throws before sending for an
\* address that fails isValidSolanaAddress, otherwise the transaction is sent
\* and is confirmed or not
MintOne(confirmed) ==
    /\ mintPc = "minting"
    /\ mintIdx <= Len(recipients)
    /\ LET recipient == recipients[mintIdx]
           wallet == Field(recipient, "wallet")
       IN  IF ~ isValidSolanaAddress(wallet)
           THEN /\ failed' = Append(failed, [recipient |-> recipient,
                                             error |-> "Invalid wallet address"])
                /\ UNCHANGED <<successful, mintCalls>>
           ELSE /\ mintCalls' = Append(mintCalls, [tier |-> tier, wallet |-> wallet,
                                                   confirmed |-> confirmed])
                /\ IF confirmed
                   THEN /\ successful' = Append(successful, [recipient |-> recipient,
                                                             signature |-> Len(mintCalls) + 1])
                        /\ UNCHANGED failed
                   ELSE /\ failed' = Append(failed, [recipient |-> recipient,
                                                     error |-> "Transaction failed"])
                        /\ UNCHANGED successful
    /\ mintIdx' = mintIdx + 1
    /\ UNCHANGED <<tier, recipients, mintPc, resultsFiles, mintRuns>>

\* main() after mintToMany: saveResults
SaveMintResults ==
    /\ mintPc = "minting"
    /\ mintIdx > Len(recipients)
    /\ resultsFiles' = Append(resultsFiles,
                              [type |-> tier, successful |-> successful, failed |-> failed,
                               total |-> Len(recipients)])
    /\ mintPc' = "saved"
    /\ UNCHANGED <<tier, recipients, mintIdx, successful, failed, mintCalls, mintRuns>>

mintOthers == <<dataVars, verifyVars, activityVars, fixVars, reportVars, csvVars, emailVars, libVars>>

InitMint ==
    /\ DataIdle /\ MintInit
    /\ VerifyIdle /\ ActivityIdle /\ FixIdle /\ ReportIdle /\ CsvIdle /\ EmailIdle /\ LibIdle

NextMint ==
    \/ StartMintRun /\ UNCHANGED mintOthers
    \/ \E isDryRun \in BOOLEAN, proceed \in BOOLEAN :
           ConfirmMint(isDryRun, proceed) /\ UNCHANGED mintOthers
    \/ \E confirmed \in BOOLEAN : MintOne(confirmed) /\ UNCHANGED mintOthers
    \/ SaveMintResults /\ UNCHANGED mintOthers

SpecMint == InitMint /\ [][NextMint]_vars

\* C11: when validateAllParticipants of the loaded list reports at least one
\* error or at least one duplicate cluster, no mint transaction has been sent
\* and no results file has been written, however often the script was started.
GateRefusesBadList ==
    LET validation == validateAllParticipants(recipients)
    IN  (Len(validation.errors) >= 1 \/ Len(validation.duplicates) >= 1)
            => /\ mintCalls = <<>>
               /\ resultsFiles = <<>>
               /\ mintPc \in {"ready", "exited"}

\* a list whose only defect is a duplicate cluster was loaded, and the run ended
DuplicateListRefused ==
    LET validation == validateAllParticipants(recipients)
    IN  /\ mintRuns >= 1
        /\ mintPc = "exited"
        /\ Len(validation.errors) = 0
        /\ Len(validation.duplicates) >= 1

----------------------------------------------------------------------------
(***************************************************************************)
(* The activity classifier: checkWalletActivity and verifyAllParticipants  *)
(* (src/verify.js), run by scripts/3-verify-builders.js.  The ledger is    *)
(* the environment: each getSignaturesForAddress request is answered with  *)
(* a list of entries, newest first, or fails.  A signature is modelled by  *)
(* a positive number and a missing value by the sentinels below.           *)
(***************************************************************************)

NullBlockTime == -1    \* blockTime: null
NoTx == 0              \* firstTx: null
NoError == "undefined" \* a result without an error property
NullError == "null"    \* error: null

\* { ...p, ...extra }
Spread(p, extra) ==
    [f \in DOMAIN p \cup DOMAIN extra |-> IF f \in DOMAIN extra THEN extra[f] ELSE p[f]]

\* the filter callback of checkWalletActivity
InTourWindow(sig, start, end) ==
    IF sig.blockTime = NullBlockTime \/ sig.blockTime = 0
    THEN FALSE
    ELSE sig.blockTime >= start /\ sig.blockTime <= end

\* a mutant of checkWalletActivity: the end of the window is excluded
checkWalletActivityExclusiveEnd(addr, start, end, answer) ==
    IF ~ isValidSolanaAddress(addr)
    THEN [queried |-> FALSE, isBuilder |-> FALSE, transactionCount |-> 0,
          firstTx |-> NoTx, error |-> "Invalid address"]
    ELSE IF answer.status = "error"
    THEN [queried |-> TRUE, isBuilder |-> FALSE, transactionCount |-> 0,
          firstTx |-> NoTx, error |-> answer.message]
    ELSE LET relevantTxs == SelectSeq(answer.entries,
                                      LAMBDA sig : InTourWindow(sig, start, end - 1))
         IN  [queried |-> TRUE, isBuilder |-> Len(relevantTxs) > 0,
              transactionCount |-> Len(relevantTxs),
              firstTx |-> IF Len(relevantTxs) > 0
                          THEN relevantTxs[Len(relevantTxs)].signature ELSE NoTx,
              error |-> NoError]

\* a mutant of checkWalletActivity: a failed request leaves no error property
checkWalletActivityUntagged(addr, start, end, answer) ==
    IF ~ isValidSolanaAddress(addr)
    THEN [queried |-> FALSE, isBuilder |-> FALSE, transactionCount |-> 0,
          firstTx |-> NoTx, error |-> "Invalid address"]
    ELSE IF answer.status = "error"
    THEN [queried |-> TRUE, isBuilder |-> FALSE, transactionCount |-> 0,
          firstTx |-> NoTx, error |-> NoError]
    ELSE LET relevantTxs == SelectSeq(answer.entries,
                                      LAMBDA sig : InTourWindow(sig, start, end))
         IN  [queried |-> TRUE, isBuilder |-> Len(relevantTxs) > 0,
              transactionCount |-> Len(relevantTxs),
              firstTx |-> IF Len(relevantTxs) > 0
                          THEN relevantTxs[Len(relevantTxs)].signature ELSE NoTx,
              error |-> NoError]

\* checkWalletActivity; queried tells whether getSignaturesForAddress was called
checkWalletActivity(addr, start, end, answer) ==
    IF ~ isValidSolanaAddress(addr)
    THEN [queried |-> FALSE, isBuilder |-> FALSE, transactionCount |-> 0,
          firstTx |-> NoTx, error |-> "Invalid address"]
    ELSE IF answer.status = "error"
    THEN [queried |-> TRUE, isBuilder |-> FALSE, transactionCount |-> 0,
          firstTx |-> NoTx, error |-> answer.message]
    ELSE IF Len(answer.entries) = 0
    THEN [queried |-> TRUE, isBuilder |-> FALSE, transactionCount |-> 0,
          firstTx |-> NoTx, error |-> NoError]
    ELSE LET relevantTxs == SelectSeq(answer.entries,
                                      LAMBDA sig : InTourWindow(sig, start, end))
         IN  [queried |-> TRUE, isBuilder |-> Len(relevantTxs) > 0,
              transactionCount |-> Len(relevantTxs),
              firstTx |-> IF Len(relevantTxs) > 0
                          THEN relevantTxs[Len(relevantTxs)].signature ELSE NoTx,
              error |-> NoError]

\* config.tourStartDate, config.tourEndDate in seconds
TourWindow == [start |-> 2, end |-> 3]

Entry(sig, t) == [signature |-> sig, blockTime |-> t]

LedgerAnswerPool ==
    { [status |-> "error", message |-> "fetch failed"],
      [status |-> "ok", entries |-> <<>>],
      [status |-> "ok", entries |-> << Entry(1, 2) >>],
      [status |-> "ok", entries |-> << Entry(1, 4) >>],
      [status |-> "ok", entries |-> << Entry(1, 3), Entry(2, 2), Entry(3, 1) >>] }

VerifyPool ==
    { MakeParticipant(ValidWallet, ABSENT, <<"N">>),
      MakeParticipant(OtherWallet, ABSENT, ABSENT),
      MakeParticipant(<<"B", "0">>, ABSENT, <<"N">>),
      MakeParticipant(ABSENT, ABSENT, <<"N">>) }

VerifyInit ==
    /\ verifyInput \in UNION {[1..n -> VerifyPool] : n \in 0..MaxParticipants}
    /\ verifyPc = "ready"
    /\ verifyIdx = 0
    /\ builders = <<>>
    /\ nonBuilders = <<>>
    /\ savedBuilders = [status |-> "none"]
    /\ ledgerQueries = <<>>
    /\ progressLog = <<>>

\* main() of 3-verify-builders.js up to the call of verifyAllParticipants
StartVerify ==
    /\ verifyPc = "ready"
    /\ verifyPc' = IF Len(verifyInput) = 0 THEN "exited" ELSE "verifying"
    /\ verifyIdx' = 1
    /\ UNCHANGED <<verifyInput, builders, nonBuilders, savedBuilders, ledgerQueries,
                   progressLog>>

\* one iteration of the loop of verifyAllParticipants
VerifyOne(answer) ==
    /\ verifyPc = "verifying"
    /\ verifyIdx <= Len(verifyInput)
    /\ LET participant == verifyInput[verifyIdx]
           result == checkWalletActivity(Field(participant, "wallet"),
                                         TourWindow.start, TourWindow.end, answer)
       IN  /\ ledgerQueries' = IF result.queried
                               THEN Append(ledgerQueries,
                                           [index |-> verifyIdx,
                                            wallet |-> Field(participant, "wallet"),
                                            answer |-> answer])
                               ELSE ledgerQueries
           /\ IF result.isBuilder
              THEN /\ builders' = Append(builders,
                                         Spread(participant,
                                                [transactionCount |-> result.transactionCount,
                                                 firstTx |-> result.firstTx]))
                   /\ UNCHANGED nonBuilders
              ELSE /\ nonBuilders' = Append(nonBuilders,
                                            Spread(participant,
                                                   [error |-> IF result.error \in {NoError, ""}
                                                              THEN NullError
                                                              ELSE result.error]))
                   /\ UNCHANGED builders
           /\ progressLog' = Append(progressLog,
                                    [current |-> verifyIdx, total |-> Len(verifyInput),
                                     participant |-> participant, result |-> result])
    /\ verifyIdx' = verifyIdx + 1
    /\ UNCHANGED <<verifyInput, verifyPc, savedBuilders>>

\* a mutant of SaveBuilders: every participant is written
SaveBuildersAndOthers ==
    /\ verifyPc = "verifying"
    /\ verifyIdx > Len(verifyInput)
    /\ savedBuilders' = [status |-> "saved", builders |-> builders \o nonBuilders]
    /\ verifyPc' = "done"
    /\ UNCHANGED <<verifyInput, verifyIdx, builders, nonBuilders, ledgerQueries,
                   progressLog>>

\* the end of verifyAllParticipants: saveBuilders(builders)
SaveBuilders ==
    /\ verifyPc = "verifying"
    /\ verifyIdx > Len(verifyInput)
    /\ savedBuilders' = [status |-> "saved", builders |-> builders]
    /\ verifyPc' = "done"
    /\ UNCHANGED <<verifyInput, verifyIdx, builders, nonBuilders, ledgerQueries,
                   progressLog>>

verifyOthers == <<dataVars, mintVars, activityVars, fixVars, reportVars, csvVars, emailVars, libVars>>

InitVerify ==
    /\ DataIdle /\ MintIdle /\ VerifyInit
    /\ ActivityIdle /\ FixIdle /\ ReportIdle /\ CsvIdle /\ EmailIdle /\ LibIdle

NextVerify ==
    \/ StartVerify /\ UNCHANGED verifyOthers
    \/ \E answer \in LedgerAnswerPool : VerifyOne(answer) /\ UNCHANGED verifyOthers
    \/ SaveBuilders /\ UNCHANGED verifyOthers

SpecVerify == InitVerify /\ [][NextVerify]_vars

\* C12: the classifier runs only over a list that passes the validation gate:
\* once a wallet of the loaded list has been classified, validateAllParticipants
\* of that list reports no error and no duplicate cluster.
ClassifiedOnlyPastGate ==
    progressLog # <<>> => GatePasses(validateAllParticipants(verifyInput))

----------------------------------------------------------------------------
(***************************************************************************)
(* scripts/0-validate-data.js: with --fix the list is cleaned and          *)
(* de-duplicated and written back before it is validated.                  *)
(***************************************************************************)

TrimOrEmpty(p, f) == IF Truthy(p, f) THEN Trim(p[f]) ELSE <<>>

\* cleanParticipantData
cleanParticipantData(ps) ==
    [i \in 1..Len(ps) |->
        Spread(ps[i], [wallet |-> TrimOrEmpty(ps[i], "wallet"),
                       email |-> TrimOrEmpty(ps[i], "email"),
                       name |-> TrimOrEmpty(ps[i], "name"),
                       campus |-> TrimOrEmpty(ps[i], "campus")])]

RECURSIVE FilterUnseen(_, _, _)
\* the filter of removeDuplicates from position i on, with the Set seen
FilterUnseen(ps, i, seen) ==
    IF i > Len(ps) THEN <<>>
    ELSE IF ~ Truthy(ps[i], "wallet") THEN FilterUnseen(ps, i + 1, seen)
    ELSE LET wallet == ToLowerCase(Trim(ps[i].wallet))
         IN  IF wallet \in seen
             THEN FilterUnseen(ps, i + 1, seen)
             ELSE <<ps[i]>> \o FilterUnseen(ps, i + 1, seen \cup {wallet})

RECURSIVE FilterUnseenExact(_, _, _)
\* the filter of a mutant of removeDuplicates: the key is not lower-cased
FilterUnseenExact(ps, i, seen) ==
    IF i > Len(ps) THEN <<>>
    ELSE IF ~ Truthy(ps[i], "wallet") THEN FilterUnseenExact(ps, i + 1, seen)
    ELSE LET wallet == Trim(ps[i].wallet)
         IN  IF wallet \in seen
             THEN FilterUnseenExact(ps, i + 1, seen)
             ELSE <<ps[i]>> \o FilterUnseenExact(ps, i + 1, seen \cup {wallet})

\* a mutant of removeDuplicates: addresses that differ in case are both kept
removeDuplicatesCaseSensitive(ps) == FilterUnseenExact(ps, 1, {})

\* removeDuplicates
removeDuplicates(ps) == FilterUnseen(ps, 1, {})

FixPool ==
    { MakeParticipant(w, ABSENT, n) :
          w \in WalletFieldPool, n \in {ABSENT, <<" ", "N">>} }

FixInit ==
    /\ fixInput \in UNION {[1..n -> FixPool] : n \in 0..MaxParticipants}
    /\ savedParticipants = fixInput
    /\ fixReport = [status |-> "none"]

\* main() of 0-validate-data.js: the --fix branch, then validateAllParticipants
RunValidateData(shouldFix) ==
    /\ fixReport = [status |-> "none"]
    /\ LET cleaned == IF shouldFix
                      THEN removeDuplicates(cleanParticipantData(savedParticipants))
                      ELSE savedParticipants
       IN  /\ savedParticipants' = cleaned
           /\ fixReport' = [status |-> "done", fix |-> shouldFix,
                            report |-> validateAllParticipants(cleaned)]
    /\ UNCHANGED fixInput

fixOthers == <<dataVars, mintVars, verifyVars, activityVars, reportVars, csvVars, emailVars, libVars>>

InitFix ==
    /\ DataIdle /\ MintIdle /\ VerifyIdle /\ ActivityIdle /\ FixInit
    /\ ReportIdle /\ CsvIdle /\ EmailIdle /\ LibIdle

NextFix == \E shouldFix \in BOOLEAN : RunValidateData(shouldFix) /\ UNCHANGED fixOthers

SpecFix == InitFix /\ [][NextFix]_vars

RECURSIVE PickFrom(_, _, _)
\* the elements of seq at the positions of S that are >= i, in order
PickFrom(seq, S, i) ==
    IF i > Len(seq) THEN <<>>
    ELSE (IF i \in S THEN <<seq[i]>> ELSE <<>>) \o PickFrom(seq, S, i + 1)

TextOf(p, f) == IF f \in DOMAIN p THEN p[f] ELSE <<>>

\* b is a with its text fields trimmed
IsTrimmed(a, b) ==
    \A f \in {"wallet", "email", "name", "campus"} : TextOf(b, f) = Trim(TextOf(a, f))

HasAddress(p) == Trim(TextOf(p, "wallet")) # <<>>

\* the positions whose trimmed, lower-cased address is not that of an earlier record
FirstOccurrences(ps) ==
    {i \in DOMAIN ps :
        ~ \E j \in 1..(i - 1) :
              /\ HasAddress(ps[i]) /\ HasAddress(ps[j])
              /\ ToLowerCase(Trim(ps[i].wallet)) = ToLowerCase(Trim(ps[j].wallet))}

\* C13: after a --fix run the written list is the input with its text fields
\* trimmed and the later records of each address removed, nothing else; every
\* kept record with a missing or malformed address is still there and the
\* validation that follows reports an error for its row.
AutoFixDropsOnlyLaterDuplicates ==
    (fixReport.status = "done" /\ fixReport.fix) =>
        LET kept == PickFrom(fixInput, FirstOccurrences(fixInput), 1)
        IN  /\ Len(savedParticipants) = Len(kept)
            /\ \A k \in DOMAIN kept :
                   /\ IsTrimmed(kept[k], savedParticipants[k])
                   /\ ~ WalletOk([wallet |-> Trim(TextOf(kept[k], "wallet"))]) =>
                          \E e \in DOMAIN fixReport.report.errors :
                              fixReport.report.errors[e].row = k

----------------------------------------------------------------------------
(***************************************************************************)
(* The error listing a run with gating errors prints: 0-validate-data.js   *)
(* and the two mint scripts print report.errors the same way, with their   *)
(* own limit.  The list validated has numRows rows, of which the rows      *)
(* firstBad..lastBad have no wallet or a malformed one.                    *)
(***************************************************************************)

MaxReportRows == 21    \* rows of the validated list

VALIDATE_PRINT_LIMIT == 20
MINT_PRINT_LIMIT == 10

ReportRow(i, firstBad, lastBad) ==
    IF i < firstBad \/ i > lastBad THEN MakeParticipant(ValidWallet, ABSENT, <<"N">>)
    ELSE IF i % 2 = 0 THEN MakeParticipant(<<"B", "0">>, ABSENT, <<"N">>)
    ELSE MakeParticipant(ABSENT, ABSENT, <<"N">>)

ReportInputs ==
    { [i \in 1..numRows |-> ReportRow(i, firstBad, lastBad)] :
          numRows \in 1..MaxReportRows, firstBad \in 1..MaxReportRows,
          lastBad \in 0..MaxReportRows }

ReportInit ==
    /\ reportScript \in {"validate", "mint"}
    /\ reportErrors \in {validateAllParticipants(ps).errors : ps \in ReportInputs}
    /\ printedLines = <<>>

\* errors.slice(0, limit).forEach(print); if (errors.length > limit) print the rest's count
ErrorListing(errors, limit) ==
    LET shown == IF Len(errors) < limit THEN Len(errors) ELSE limit
    IN  [k \in 1..shown |-> [kind |-> "error", row |-> errors[k].row, text |-> errors[k].text]]
        \o (IF Len(errors) > limit
            THEN << [kind |-> "more", count |-> Len(errors) - limit] >>
            ELSE <<>>)

\* the block `if (report.errors.length > 0)` of the script
PrintErrors ==
    /\ printedLines = <<>>
    /\ Len(reportErrors) > 0
    /\ printedLines' = << [kind |-> "heading", count |-> Len(reportErrors)] >>
                       \o ErrorListing(reportErrors,
                                       IF reportScript = "validate"
                                       THEN VALIDATE_PRINT_LIMIT ELSE MINT_PRINT_LIMIT)
    /\ UNCHANGED <<reportScript, reportErrors>>

reportOthers == <<dataVars, mintVars, verifyVars, activityVars, fixVars, csvVars, emailVars, libVars>>

InitReport ==
    /\ DataIdle /\ MintIdle /\ VerifyIdle /\ ActivityIdle /\ FixIdle
    /\ ReportInit /\ CsvIdle /\ EmailIdle /\ LibIdle

NextReport == PrintErrors /\ UNCHANGED reportOthers

SpecReport == InitReport /\ [][NextReport]_vars

\* C14: once the error listing is printed, every message of report.errors is
\* one of its lines, with its row number, whatever the number of errors.
EveryErrorItemized ==
    printedLines # <<>> =>
        \A k \in DOMAIN reportErrors :
            \E l \in DOMAIN printedLines :
                /\ printedLines[l].kind = "error"
                /\ printedLines[l].row = reportErrors[k].row
                /\ printedLines[l].text = reportErrors[k].text

----------------------------------------------------------------------------
(* checkWalletActivity as a unit: an address, a window and a ledger answer *)
(* are drawn, then the function is called.                                 *)

MaxTime == 3           \* latest second of the window
MaxSignatures == 2     \* entries of a ledger answer

BlockTimes == {NullBlockTime} \cup 0..(MaxTime + 1)

\* answers of getSignaturesForAddress: the k-th entry, newest first, has signature k
LedgerAnswers ==
    { [status |-> "error", message |-> "fetch failed"] }
    \cup { [status |-> "ok", entries |-> [k \in 1..n |-> Entry(k, times[k])]] :
               n \in 0..MaxSignatures, times \in [1..MaxSignatures -> BlockTimes] }

ActivityInit ==
    /\ walletAddress \in {ValidWallet, <<"B", "0">>}
    /\ startTime \in 1..MaxTime
    /\ endTime \in 1..MaxTime
    /\ signatures \in LedgerAnswers
    /\ activity = [status |-> "none"]

CallCheckWalletActivity ==
    /\ activity = [status |-> "none"]
    /\ activity' = [status |-> "done",
                    result |-> checkWalletActivity(walletAddress, startTime, endTime,
                                                   signatures)]
    /\ UNCHANGED <<walletAddress, startTime, endTime, signatures>>

activityOthers == <<dataVars, mintVars, verifyVars, fixVars, reportVars, csvVars, emailVars, libVars>>

InitActivity ==
    /\ DataIdle /\ MintIdle /\ VerifyIdle /\ ActivityInit
    /\ FixIdle /\ ReportIdle /\ CsvIdle /\ EmailIdle /\ LibIdle

NextActivity == CallCheckWalletActivity /\ UNCHANGED activityOthers

SpecActivity == InitActivity /\ [][NextActivity]_vars

\* 32 to 44 characters of the base58 alphabet
WellFormedAddress(addr) ==
    /\ addr # ABSENT
    /\ Len(addr) \in 32..44
    /\ \A i \in DOMAIN addr : addr[i] \in Base58Alphabet

\* the positions of the answer whose block time lies in [startTime, endTime]
InWindowEntries ==
    {k \in DOMAIN signatures.entries :
        /\ signatures.entries[k].blockTime # NullBlockTime
        /\ startTime <= signatures.entries[k].blockTime
        /\ signatures.entries[k].blockTime <= endTime}

\* C15: for a valid address and an answered request, transactionCount is the
\* number of returned entries with startTime <= blockTime <= endTime, isBuilder
\* says whether that number is positive, and firstTx is the signature of the
\* last such entry of the answer (the oldest), or null when there is none.
ActivityCountsWindow ==
    (/\ activity.status = "done"
     /\ WellFormedAddress(walletAddress)
     /\ signatures.status = "ok") =>
        LET count == Cardinality(InWindowEntries)
            oldest == CHOOSE k \in InWindowEntries : \A j \in InWindowEntries : j <= k
        IN  /\ activity.result.transactionCount = count
            /\ activity.result.isBuilder = (count > 0)
            /\ activity.result.firstTx =
                   IF count = 0 THEN NoTx ELSE signatures.entries[oldest].signature

\* two entries on the two ends of the window were counted, the older one is firstTx
BothWindowEndsCounted ==
    /\ activity.status = "done"
    /\ WellFormedAddress(walletAddress)
    /\ signatures.status = "ok"
    /\ startTime < endTime
    /\ Len(signatures.entries) = 2
    /\ signatures.entries[1].blockTime = endTime
    /\ signatures.entries[2].blockTime = startTime
    /\ activity.result.transactionCount = 2
    /\ activity.result.firstTx = 2

----------------------------------------------------------------------------
(* Properties of the batch run by 3-verify-builders.js                     *)

\* the getSignaturesForAddress requests issued for the i-th participant
QueriesFor(i) == {k \in DOMAIN ledgerQueries : ledgerQueries[k].index = i}

\* the position in nonBuilders of the i-th participant, when it is no builder
NonBuilderPosition(i) == Cardinality({j \in 1..i : ~ progressLog[j].result.isBuilder})

\* C16: a wallet whose address is invalid is not queried, no wallet is queried
\* twice, and a wallet with an invalid address or a failed request is classified
\* isBuilder = false with transactionCount 0 and lands in nonBuilders with an
\* error tag that is not null; the loop goes on over every later wallet.
FailureTaggedNotFatal ==
    /\ \A i \in DOMAIN progressLog :
           LET p == verifyInput[i]
               invalid == ~ WellFormedAddress(Field(p, "wallet"))
               failedQuery == \E k \in QueriesFor(i) :
                                  ledgerQueries[k].answer.status = "error"
               r == progressLog[i].result
           IN  /\ Cardinality(QueriesFor(i)) <= 1
               /\ invalid => QueriesFor(i) = {}
               /\ (invalid \/ failedQuery) =>
                      /\ r.isBuilder = FALSE
                      /\ r.transactionCount = 0
                      /\ r.error \notin {NoError, NullError, ""}
                      /\ nonBuilders[NonBuilderPosition(i)] = Spread(p, [error |-> r.error])
    /\ verifyPc = "verifying" => Len(progressLog) = verifyIdx - 1
    /\ verifyPc = "done" => Len(progressLog) = Len(verifyInput)

\* the request for the first wallet failed, the second wallet has an invalid
\* address, and both were classified and tagged
FailedThenInvalidBothTagged ==
    /\ verifyPc = "done"
    /\ Len(verifyInput) >= 2
    /\ \E k \in QueriesFor(1) : ledgerQueries[k].answer.status = "error"
    /\ ~ WellFormedAddress(Field(verifyInput[2], "wallet"))
    /\ Len(nonBuilders) >= 2
    /\ nonBuilders[1].error = "fetch failed"
    /\ nonBuilders[2].error = "Invalid address"

Without(rec, fields) == [f \in DOMAIN rec \ fields |-> rec[f]]

\* C17: the participants classified so far are split between builders and
\* nonBuilders, each in input order; every builder carries transactionCount >= 1
\* and a firstTx; what is written to builders.json is the builders list.
BuildersPartitionInput ==
    /\ \E S \in SUBSET DOMAIN progressLog :
           /\ [k \in 1..Len(builders) |-> Without(builders[k], {"transactionCount", "firstTx"})]
                  = PickFrom(verifyInput, S, 1)
           /\ [k \in 1..Len(nonBuilders) |-> Without(nonBuilders[k], {"error"})]
                  = PickFrom(verifyInput, DOMAIN progressLog \ S, 1)
    /\ \A k \in DOMAIN builders :
           builders[k].transactionCount >= 1 /\ builders[k].firstTx # NoTx
    /\ verifyPc = "done" => savedBuilders = [status |-> "saved", builders |-> builders]
    /\ verifyPc # "done" => savedBuilders = [status |-> "none"]

\* a finished run with a builder and a non-builder, the builder written to the file
BuilderAndNonBuilderSaved ==
    /\ verifyPc = "done"
    /\ Len(builders) >= 1
    /\ Len(nonBuilders) >= 1
    /\ savedBuilders = [status |-> "saved", builders |-> builders]

----------------------------------------------------------------------------
(***************************************************************************)
(* toCSV and parseCSV of scripts/consolidate-data.js.  A CSV text is a     *)
(* sequence of characters; a record maps each column name to a text.       *)
(***************************************************************************)

MaxCsvRows == 2        \* records given to toCSV

Quote == "\""

RECURSIVE Join(_, _)
\* Array.prototype.join
Join(parts, sep) ==
    IF Len(parts) = 0 THEN <<>>
    ELSE IF Len(parts) = 1 THEN parts[1]
    ELSE parts[1] \o sep \o Join(Tail(parts), sep)

\* val.replace(/"/g, '""')
EscapeQuotes(val) ==
    Flatten([i \in 1..Len(val) |-> IF val[i] = Quote THEN <<Quote, Quote>> ELSE <<val[i]>>])

\* the callback of columns.map in toCSV
CsvField(row, col) ==
    LET val == IF col \in DOMAIN row THEN row[col] ELSE <<>>
    IN  IF "," \in Range(val) \/ Quote \in Range(val)
        THEN <<Quote>> \o EscapeQuotes(val) \o <<Quote>>
        ELSE val

\* toCSV
toCSV(data, columns) ==
    IF Len(data) = 0 THEN <<>>
    ELSE LET header == Join(columns, <<",">>)
             rows == [r \in 1..Len(data) |->
                         Join([c \in 1..Len(columns) |-> CsvField(data[r], columns[c])],
                              <<",">>)]
         IN  Join(<<header>> \o rows, <<"\n">>)

RECURSIVE SplitFrom(_, _, _, _)
\* String.prototype.split(sep) from position i on, current holding the open piece
SplitFrom(text, sep, i, current) ==
    IF i > Len(text) THEN <<current>>
    ELSE IF text[i] = sep THEN <<current>> \o SplitFrom(text, sep, i + 1, <<>>)
    ELSE SplitFrom(text, sep, i + 1, Append(current, text[i]))

RECURSIVE ScanLine(_, _, _, _)
\* the loop of parseCSVLine from position i on
ScanLine(line, i, current, inQuotes) ==
    IF i > Len(line) THEN <<current>>
    ELSE IF line[i] = Quote THEN ScanLine(line, i + 1, current, ~ inQuotes)
    ELSE IF line[i] = "," /\ ~ inQuotes
    THEN <<current>> \o ScanLine(line, i + 1, <<>>, inQuotes)
    ELSE ScanLine(line, i + 1, Append(current, line[i]), inQuotes)

\* s.replace(/^"|"$/g, '')
StripOuterQuotes(s) ==
    LET noHead == IF s # <<>> /\ Head(s) = Quote THEN Tail(s) ELSE s
    IN  IF noHead # <<>> /\ noHead[Len(noHead)] = Quote
        THEN SubSeq(noHead, 1, Len(noHead) - 1)
        ELSE noHead

\* parseCSVLine
parseCSVLine(line) ==
    LET result == ScanLine(line, 1, <<>>, FALSE)
    IN  [k \in 1..Len(result) |-> Trim(StripOuterQuotes(result[k]))]

\* the object built for one line: row[key.trim()] = values[index]?.trim() || ''
CsvRowObject(header, values) ==
    [key \in {Trim(header[k]) : k \in DOMAIN header} |->
        LET index == CHOOSE k \in DOMAIN header :
                         /\ Trim(header[k]) = key
                         /\ \A j \in DOMAIN header : Trim(header[j]) = key => j <= k
        IN  IF index <= Len(values) THEN Trim(values[index]) ELSE <<>>]

\* parseCSV
parseCSV(content) ==
    LET lines == SplitFrom(Trim(content), "\n", 1, <<>>)
    IN  IF Len(lines) < 2 THEN <<>>
        ELSE LET header == parseCSVLine(lines[1])
             IN  [i \in 1..(Len(lines) - 1) |->
                     CsvRowObject(header, parseCSVLine(lines[i + 1]))]

CsvColumns == << <<"n", "a", "m", "e">>, <<"w", "a", "l", "l", "e", "t">> >>

CsvValuePool ==
    { <<>>,
      <<"a">>,
      <<"a", ",", "b">>,
      <<"a", Quote, "b">>,
      <<" ", "a">> }

CsvInit ==
    /\ csvData \in UNION {[1..n -> [Range(CsvColumns) -> CsvValuePool]] : n \in 1..MaxCsvRows}
    /\ csvContent = <<>>
    /\ csvRows = [status |-> "none"]

CallToCSV ==
    /\ csvContent = <<>>
    /\ csvRows = [status |-> "none"]
    /\ csvContent' = toCSV(csvData, CsvColumns)
    /\ UNCHANGED <<csvData, csvRows>>

CallParseCSV ==
    /\ csvContent # <<>>
    /\ csvRows = [status |-> "none"]
    /\ csvRows' = [status |-> "parsed", rows |-> parseCSV(csvContent)]
    /\ UNCHANGED <<csvData, csvContent>>

csvOthers == <<dataVars, mintVars, verifyVars, activityVars, fixVars, reportVars, emailVars, libVars>>

InitCsv ==
    /\ DataIdle /\ MintIdle /\ VerifyIdle /\ ActivityIdle /\ FixIdle /\ ReportIdle
    /\ CsvInit /\ EmailIdle /\ LibIdle

NextCsv ==
    \/ CallToCSV /\ UNCHANGED csvOthers
    \/ CallParseCSV /\ UNCHANGED csvOthers

SpecCsv == InitCsv /\ [][NextCsv]_vars

\* C18: parseCSV(toCSV(records, columns)) has as many rows as records, and
\* every field of every row equals the field of the record it was written from.
CsvRoundTripExact ==
    csvRows.status = "parsed" =>
        /\ Len(csvRows.rows) = Len(csvData)
        /\ \A r \in DOMAIN csvData : \A c \in DOMAIN CsvColumns :
               /\ CsvColumns[c] \in DOMAIN csvRows.rows[r]
               /\ csvRows.rows[r][CsvColumns[c]] = csvData[r][CsvColumns[c]]

----------------------------------------------------------------------------
(* Re-running a mint script                                                *)

\* the confirmed mint transactions of a wallet in a tier's tree
ConfirmedMints(t, wallet) ==
    {k \in DOMAIN mintCalls :
        /\ mintCalls[k].tier = t
        /\ mintCalls[k].wallet = wallet
        /\ mintCalls[k].confirmed}

\* C19: over any number of runs of a mint script on the same list, a wallet has
\* at most one confirmed mint of the tier: a run that follows a run with
\* failures leaves out the recipients that were minted before.
OneMintPerWalletAndTier ==
    \A k \in DOMAIN mintCalls :
        Cardinality(ConfirmedMints(mintCalls[k].tier, mintCalls[k].wallet)) <= 1

----------------------------------------------------------------------------
(***************************************************************************)
(* scripts/6-send-emails.js: each run loads results/email-tracking.json,   *)
(* builds the list of emails of its mode, sends them with sendBatchEmails  *)
(* and writes the tracking file back.  The mail service is the environment:*)
(* each sendEmail call ends accepted or failed.                            *)
(***************************************************************************)

MaxEmailRuns == 3      \* times the script is started

\* the `successful` lists of the latest participation and builders results files
ParticipationResults ==
    << [email |-> <<"p">>, wallet |-> ValidWallet],
       [email |-> <<"q">>, wallet |-> OtherWallet],
       [email |-> <<>>, wallet |-> OtherWallet] >>
BuilderResults == << [email |-> <<"p">>, wallet |-> ValidWallet] >>

EmailModes == {"pending", "participation", "builders", "retry"}

\* `${type}:${email}`
EmailKey(e) == <<e.type, e.email>>

\* prepareEmails(results, type, ...)
prepareEmails(results, type) ==
    LET withEmail == SelectSeq(results, LAMBDA recipient : recipient.email # <<>>)
    IN  [k \in 1..Len(withEmail) |->
            [email |-> withEmail[k].email, type |-> type, wallet |-> withEmail[k].wallet]]

EmailInit ==
    /\ trackingFile = [sent |-> <<>>, failed |-> <<>>]
    /\ tracking = [sent |-> <<>>, failed |-> <<>>]
    /\ emailPc = "ready"
    /\ emailQueue = <<>>
    /\ batchSent = <<>>
    /\ batchFailed = <<>>
    /\ delivered = <<>>
    /\ emailRuns = 0

\* main() up to the call of sendBatchEmails
StartEmailRun(mode, proceed) ==
    /\ emailPc = "ready"
    /\ emailRuns < MaxEmailRuns
    /\ emailRuns' = emailRuns + 1
    /\ LET loaded == trackingFile
           alreadySent == {EmailKey(loaded.sent[k]) : k \in DOMAIN loaded.sent}
           notSent(e) == EmailKey(e) \notin alreadySent
           participation == IF mode # "builders"
                            THEN SelectSeq(prepareEmails(ParticipationResults, "participation"),
                                           notSent)
                            ELSE <<>>
           builder == IF mode # "participation"
                      THEN SelectSeq(prepareEmails(BuilderResults, "builder"), notSent)
                      ELSE <<>>
           allEmails == IF mode = "retry" THEN loaded.failed ELSE participation \o builder
       IN  IF Len(allEmails) = 0 \/ ~ proceed
           THEN UNCHANGED <<tracking, emailPc, emailQueue, batchSent, batchFailed>>
           ELSE /\ tracking' = IF mode = "retry"
                               THEN [loaded EXCEPT !.failed = <<>>]
                               ELSE loaded
                /\ emailQueue' = allEmails
                /\ batchSent' = <<>>
                /\ batchFailed' = <<>>
                /\ emailPc' = "sending"
    /\ UNCHANGED <<trackingFile, delivered>>

\* one iteration of sendBatchEmails: sendEmail ends accepted or, after its
\* attempts, failed
SendOne(accepted) ==
    /\ emailPc = "sending"
    /\ emailQueue # <<>>
    /\ LET e == Head(emailQueue)
       IN  IF accepted
           THEN /\ batchSent' = Append(batchSent, e)
                /\ delivered' = Append(delivered, EmailKey(e))
                /\ UNCHANGED batchFailed
           ELSE /\ batchFailed' = Append(batchFailed, e)
                /\ UNCHANGED <<batchSent, delivered>>
    /\ emailQueue' = Tail(emailQueue)
    /\ UNCHANGED <<trackingFile, tracking, emailPc, emailRuns>>

\* main() after sendBatchEmails: update and save the tracking file
SaveEmailTracking ==
    /\ emailPc = "sending"
    /\ emailQueue = <<>>
    /\ tracking' = [sent |-> tracking.sent \o batchSent,
                    failed |-> tracking.failed \o batchFailed]
    /\ trackingFile' = tracking'
    /\ emailPc' = "ready"
    /\ UNCHANGED <<emailQueue, batchSent, batchFailed, delivered, emailRuns>>

emailOthers == <<dataVars, mintVars, verifyVars, activityVars, fixVars, reportVars, csvVars, libVars>>

InitEmail ==
    /\ DataIdle /\ MintIdle /\ VerifyIdle /\ ActivityIdle /\ FixIdle /\ ReportIdle
    /\ CsvIdle /\ EmailInit /\ LibIdle

NextEmail ==
    \/ \E mode \in EmailModes, proceed \in BOOLEAN :
           StartEmailRun(mode, proceed) /\ UNCHANGED emailOthers
    \/ \E accepted \in BOOLEAN : SendOne(accepted) /\ UNCHANGED emailOthers
    \/ SaveEmailTracking /\ UNCHANGED emailOthers

SpecEmail == InitEmail /\ [][NextEmail]_vars

\* C20: over any sequence of runs, the mail service accepts a (type, email)
\* pair at most once, and no run queues an email that the tracking file
\* records as sent.
EmailSentAtMostOnce ==
    /\ \A i, j \in DOMAIN delivered : delivered[i] = delivered[j] => i = j
    /\ emailPc = "sending" =>
           \A k \in DOMAIN emailQueue :
               \A s \in DOMAIN trackingFile.sent :
                   EmailKey(emailQueue[k]) # EmailKey(trackingFile.sent[s])

(***************************************************************************)
(* parseCSV on raw text: quoted fields, short rows and blank input.        *)
(***************************************************************************)

MaxLineLen == 4

LineAlphabet == {"a", ",", Quote, " "}

RawHeader == <<"k", ",", "m">>

\* the texts a CSV file can hold: blank ones, a header alone, a header and one line
RawContentPool ==
    {<<>>, <<" ">>, <<"\n">>, RawHeader}
    \cup {RawHeader \o <<"\n">> \o line :
             line \in UNION {[1..n -> LineAlphabet] : n \in 1..MaxLineLen}}

ParseInit ==
    /\ csvData = <<>>
    /\ csvContent \in RawContentPool
    /\ csvRows = [status |-> "none"]

\* const walletRows = parseCSV(walletContent)
ParseRawContent ==
    /\ csvData = <<>>
    /\ csvRows = [status |-> "none"]
    /\ csvRows' = [status |-> "parsed", rows |-> parseCSV(csvContent)]
    /\ UNCHANGED <<csvData, csvContent>>

InitParse ==
    /\ DataIdle /\ MintIdle /\ VerifyIdle /\ ActivityIdle /\ FixIdle /\ ReportIdle
    /\ ParseInit /\ EmailIdle /\ LibIdle

NextParse == ParseRawContent /\ UNCHANGED csvOthers

SpecParse == InitParse /\ [][NextParse]_vars

RECURSIVE ReadQuoted(_, _, _)
\* the value of a quoted field whose opening quote is before position i: a
\* doubled quote stands for one quote, a single one closes the field
ReadQuoted(line, i, acc) ==
    IF i > Len(line) THEN [closed |-> FALSE]
    ELSE IF line[i] # Quote THEN ReadQuoted(line, i + 1, Append(acc, line[i]))
    ELSE IF i < Len(line) /\ line[i + 1] = Quote
    THEN ReadQuoted(line, i + 2, Append(acc, Quote))
    ELSE [closed |-> TRUE, value |-> acc, next |-> i + 1]

\* the line after the header, when the text has exactly two lines
DataLine ==
    LET lines == SplitFrom(Trim(csvContent), "\n", 1, <<>>)
    IN  IF Len(lines) = 2 THEN lines[2] ELSE <<>>

\* the line starts with a quoted field that is closed and ends at a comma or at
\* the end of the line
StartsWithQuotedField ==
    /\ DataLine # <<>> /\ Head(DataLine) = Quote
    /\ LET q == ReadQuoted(DataLine, 2, <<>>)
       IN  q.closed /\ (q.next > Len(DataLine) \/ DataLine[q.next] = ",")

\* C21: once the text is parsed, a first field wrapped in quotes has the value
\* between the quotes, commas kept and each doubled quote read as one quote
\* (up to the trimming every value gets); a line with one field has the empty
\* text under the second key; text that is empty after trimming gives no rows.
QuotedFieldsParsed ==
    csvRows.status = "parsed" =>
        /\ StartsWithQuotedField =>
               /\ Len(csvRows.rows) = 1
               /\ csvRows.rows[1][<<"k">>] = Trim(ReadQuoted(DataLine, 2, <<>>).value)
        /\ (DataLine # <<>> /\ "," \notin Range(DataLine)) =>
               /\ Len(csvRows.rows) = 1
               /\ csvRows.rows[1][<<"m">>] = <<>>
        /\ Trim(csvContent) = <<>> => csvRows.rows = <<>>

\* the three parts of C21 that hold: the comma inside quotes, the short row,
\* the blank text
QuotedCommaShortRowBlank ==
    csvRows.status = "parsed" =>
        /\ (StartsWithQuotedField /\ Quote \notin Range(ReadQuoted(DataLine, 2, <<>>).value)) =>
               /\ Len(csvRows.rows) = 1
               /\ csvRows.rows[1][<<"k">>] = Trim(ReadQuoted(DataLine, 2, <<>>).value)
        /\ (DataLine # <<>> /\ "," \notin Range(DataLine)) =>
               /\ Len(csvRows.rows) = 1
               /\ csvRows.rows[1][<<"m">>] = <<>>
        /\ Trim(csvContent) = <<>> => csvRows.rows = <<>>

(***************************************************************************)
(* normalizeName on display names with punctuation.                        *)
(***************************************************************************)

MaxNameLen == 5

NameAlphabet == {"a", "B", " ", "-"}

\* a display name is a text, or absent (the column is missing from the row)
DisplayNames ==
    {[kind |-> "undefined"]}
    \cup {[kind |-> "string", text |-> t] :
             t \in UNION {[1..n -> NameAlphabet] : n \in 0..MaxNameLen}}

NameInit ==
    /\ rawName \in DisplayNames
    /\ normalized = [status |-> "none"]

\* const normalizedName = normalizeName(name)
CallNormalizeName ==
    /\ normalized.status = "none"
    /\ normalized' =
           [status |-> "done",
            value |-> IF rawName.kind = "string" THEN normalizeName(rawName.text)
                      ELSE <<>>]
    /\ UNCHANGED rawName

\* normalizeName applied to its own result
CallNormalizeNameAgain ==
    /\ normalized.status = "done"
    /\ normalized' = [status |-> "again", value |-> normalized.value,
                      again |-> normalizeName(normalized.value)]
    /\ UNCHANGED rawName

nameOthers ==
    <<dataVars, mintVars, verifyVars, activityVars, fixVars, reportVars, csvVars, emailVars,
      lumaFileRows, solanaCheck, sendVars>>

InitName ==
    DataIdle /\ StagesIdleButLib /\ LumaFilesIdle /\ NameInit /\ AgreeIdle /\ SendIdle

NextName ==
    \/ CallNormalizeName /\ UNCHANGED nameOthers
    \/ CallNormalizeNameAgain /\ UNCHANGED nameOthers

SpecName == InitName /\ [][NextName]_vars

\* only the letters a-z and spaces, no two spaces in a row, none at either end
IsCanonicalName(s) ==
    /\ \A i \in DOMAIN s : s[i] \in Range(LowerLetters) \cup {" "}
    /\ \A i \in DOMAIN s : i > 1 => ~ (s[i - 1] = " " /\ s[i] = " ")
    /\ s # <<>> => (s[1] # " " /\ s[Len(s)] # " ")

\* C22: what normalizeName returns is canonical (letters a-z and single
\* spaces, no leading or trailing space), it is the empty text for an empty or
\* absent name, and normalizing it again returns it unchanged.
NormalizedIsCanonical ==
    /\ normalized.status \in {"done", "again"} =>
           /\ IsCanonicalName(normalized.value)
           /\ (rawName.kind = "undefined" \/ rawName.text = <<>>) => normalized.value = <<>>
    /\ normalized.status = "again" => normalized.again = normalized.value

(***************************************************************************)
(* The fuzzy step against the wallet table.                                *)
(***************************************************************************)

RECURSIVE RecordScan(_, _, _, _)
\* the highest-scoring wallet record from row k on among those whose address
\* is not in used, the earlier row winning a tie
RecordScan(regName, used, k, best) ==
    IF k > Len(walletData) THEN best
    ELSE LET score == similarity(regName, walletData[k].normalizedName)
         IN  IF walletData[k].wallet \notin used /\ ScoreGt(score, best.score)
             THEN RecordScan(regName, used, k + 1, [idx |-> k, score |-> score])
             ELSE RecordScan(regName, used, k + 1, best)

BestRecord(reg) ==
    RecordScan(reg.normalizedName, usedWallets, 1, [idx |-> 0, score |-> <<0, 1>>])

\* C23: a step of the matching loop for a registration with no exact-name
\* match compares it with every wallet record not yet consumed, a record whose
\* canonical name collides with an earlier record's included, the first
\* record winning a tie; when the best score is at least 0.85 the step emits
\* a Participant with that record's wallet and matchMethod "fuzzy" and marks
\* the wallet consumed.
FuzzyStepScansEveryRecord ==
    [][ (/\ pc = "match" /\ regIdx <= Len(registrationsByEmail) /\ regIdx' = regIdx + 1
         /\ ~ HasKey(walletsByName, registrationsByEmail[regIdx].normalizedName)
         /\ BestRecord(registrationsByEmail[regIdx]).idx # 0
         /\ ScoreGeq(BestRecord(registrationsByEmail[regIdx]).score, <<85, 100>>))
        => /\ Len(matched') = Len(matched) + 1
           /\ matched'[Len(matched')].wallet
                 = walletData[BestRecord(registrationsByEmail[regIdx]).idx].wallet
           /\ matched'[Len(matched')].matchMethod = "fuzzy"
           /\ matched'[Len(matched')].wallet \in usedWallets' ]_vars

\* the same step when no two wallet records share a canonical name
FuzzyStepScansLookup ==
    [][ (/\ pc = "match" /\ regIdx <= Len(registrationsByEmail) /\ regIdx' = regIdx + 1
         /\ Len(walletsByName) = Len(walletData)
         /\ ~ HasKey(walletsByName, registrationsByEmail[regIdx].normalizedName)
         /\ BestRecord(registrationsByEmail[regIdx]).idx # 0
         /\ ScoreGeq(BestRecord(registrationsByEmail[regIdx]).score, <<85, 100>>))
        => /\ Len(matched') = Len(matched) + 1
           /\ matched'[Len(matched')].wallet
                 = walletData[BestRecord(registrationsByEmail[regIdx]).idx].wallet
           /\ matched'[Len(matched')].matchMethod = "fuzzy"
           /\ matched'[Len(matched')].wallet \in usedWallets' ]_vars

(***************************************************************************)
(* Merging the Luma registrations by email.                                *)
(***************************************************************************)

MergeEmailPool == { <<"p">>, <<"P">>, <<"q">> }
MergeNamePool == { <<"J", "O", "H", "N">>, <<"z", "e", "d">> }
MergeCampusPool == { "UNILAG", "LASU" }
MergeCheckedInPool == { "", "2025-03-01" }
MergeStatusPool == { "approved", "declined" }

MergeInit == ConsolidateInit /\ lumaFileRows = <<>>

\* one more row of a Luma file goes through the loop body, lines 278-308
ReadLumaRow(rawEmail, fullName, campus, checkedIn, status) ==
    /\ LoadLumaRow(rawEmail, fullName, campus, checkedIn, status)
    /\ lumaFileRows' = Append(lumaFileRows,
                              [email |-> rawEmail, name |-> fullName, campus |-> campus,
                               checkedIn |-> checkedIn, status |-> status])

mergeOthers ==
    <<similarityVars, addressVars, validateVars, mintVars, verifyVars, activityVars, fixVars,
      reportVars, csvVars, emailVars, nameVars, solanaCheck, sendVars>>

InitMerge ==
    /\ MergeInit /\ SimilarityIdle /\ AddressIdle /\ ValidateIdle /\ StagesIdleButLib
    /\ NameIdle /\ AgreeIdle /\ SendIdle

NextMerge ==
    \/ LoadWalletRow(<<"J", "o", "h", "n">>, <<"W", "1">>)
          /\ UNCHANGED <<lumaFileRows, mergeOthers>>
    \/ WalletsLoaded /\ UNCHANGED <<lumaFileRows, mergeOthers>>
    \/ \E rawEmail \in MergeEmailPool, fullName \in MergeNamePool,
          campus \in MergeCampusPool, checkedIn \in MergeCheckedInPool,
          status \in MergeStatusPool :
          ReadLumaRow(rawEmail, fullName, campus, checkedIn, status)
             /\ UNCHANGED mergeOthers
    \/ LumaLoaded /\ UNCHANGED <<lumaFileRows, mergeOthers>>
    \/ MatchRegistration /\ UNCHANGED <<lumaFileRows, mergeOthers>>
    \/ WalkInPass /\ UNCHANGED <<lumaFileRows, mergeOthers>>
    \/ WriteParticipants /\ UNCHANGED <<lumaFileRows, mergeOthers>>

SpecMerge == InitMerge /\ [][NextMerge]_vars

\* the rows read so far whose email, lower-cased, is e
RowsOf(e) ==
    LET mine(row) == ToLowerCase(Trim(row.email)) = e
    IN  SelectSeq(lumaFileRows, mine)

RowAttended(row) == row.checkedIn # "" \/ row.status = "approved"

AttendedRowsOf(e) == SelectSeq(RowsOf(e), RowAttended)

\* the matching loop is over
MatchingOver == pc \in {"write", "done"}

\* how many outcomes of the matching loop carry the email e
OutcomesOf(e) ==
    Cardinality({m \in DOMAIN matched : matched[m].email = e})
    + Cardinality({r \in DOMAIN reviewNeeded : reviewNeeded[r].lumaEmail = e})
    + Cardinality({w \in DOMAIN missingWallets : missingWallets[w].email = e})

\* one record per lower-cased email, with the first-seen name and a
\* duplicate-free list of the campuses of its rows, and one outcome each
MergedByEmail ==
    /\ \A i, j \in DOMAIN registrationsByEmail :
          registrationsByEmail[i].email = registrationsByEmail[j].email => i = j
    /\ {registrationsByEmail[i].email : i \in DOMAIN registrationsByEmail}
          = {ToLowerCase(Trim(lumaFileRows[k].email)) : k \in DOMAIN lumaFileRows}
    /\ \A i \in DOMAIN registrationsByEmail :
          LET reg == registrationsByEmail[i]
              rows == RowsOf(reg.email)
          IN  /\ reg.name = Trim(rows[1].name)
              /\ Cardinality(Range(reg.campuses)) = Len(reg.campuses)
              /\ Range(reg.campuses) = {rows[k].campus : k \in DOMAIN rows}
              /\ MatchingOver => OutcomesOf(reg.email) = 1

\* C24: the registrations with the same lower-cased email are merged into one
\* record that gets exactly one outcome of the matching loop; the record keeps
\* the first-seen name, a duplicate-free list of campuses, and counts as
\* attended sessions the rows of that email that were checked in or approved.
MergedCountsAttendedRows ==
    /\ MergedByEmail
    /\ \A i \in DOMAIN registrationsByEmail :
          registrationsByEmail[i].daysAttended
             = Len(AttendedRowsOf(registrationsByEmail[i].email))

(***************************************************************************)
(* mintToMany called on any recipient list.                                *)
(***************************************************************************)

\* mintToMany(umi, treeAddress, metadataUri, recipients, metadata, onProgress)
\* entered with a list nobody validated
MintManyInit ==
    /\ tier \in {"participation", "builder"}
    /\ recipients \in UNION {[1..n -> RecipientPool] : n \in 0..MaxParticipants}
    /\ mintPc = "minting"
    /\ mintIdx = 1
    /\ successful = <<>>
    /\ failed = <<>>
    /\ mintCalls = <<>>
    /\ resultsFiles = <<>>
    /\ mintRuns = 0

\* return { successful, failed }
MintToManyReturns ==
    /\ mintPc = "minting"
    /\ mintIdx > Len(recipients)
    /\ mintPc' = "returned"
    /\ UNCHANGED <<tier, recipients, mintIdx, successful, failed, mintCalls,
                   resultsFiles, mintRuns>>

InitMintMany ==
    /\ DataIdle /\ MintManyInit
    /\ VerifyIdle /\ ActivityIdle /\ FixIdle /\ ReportIdle /\ CsvIdle /\ EmailIdle /\ LibIdle

NextMintMany ==
    \/ \E confirmed \in BOOLEAN : MintOne(confirmed) /\ UNCHANGED mintOthers
    \/ MintToManyReturns /\ UNCHANGED mintOthers

SpecMintMany == InitMintMany /\ [][NextMintMany]_vars

\* how many entries of a result list carry the recipient record r
TimesIn(list, r) == Cardinality({k \in DOMAIN list : list[k].recipient = r})

\* how many of the first n recipients are the record r
TimesAmongFirst(n, r) == Cardinality({k \in 1..n : recipients[k] = r})

\* the addresses of the first n recipients that are well-formed, in input order
SendableAmongFirst(n) ==
    LET wallets == [k \in 1..n |-> Field(recipients[k], "wallet")]
        wellFormed(w) == w # ABSENT /\ Len(w) >= 32 /\ Len(w) <= 44
                         /\ \A i \in DOMAIN w : w[i] \in Base58Alphabet
    IN  SelectSeq(wallets, wellFormed)

\* C25: mintToMany attempts every recipient once and in input order, whatever
\* happened to the earlier ones: the transactions sent are those of the
\* well-formed addresses handled so far, in input order, none for a malformed
\* address; every recipient handled so far is in successful or in failed as
\* often as it is in the list, never in both for one attempt; and the call
\* returns only when the whole list was attempted.
OneAttemptPerRecipient ==
    /\ mintIdx \in 1..(Len(recipients) + 1)
    /\ Len(successful) + Len(failed) = mintIdx - 1
    /\ \A r \in Range(recipients) :
          TimesIn(successful, r) + TimesIn(failed, r) = TimesAmongFirst(mintIdx - 1, r)
    /\ [k \in 1..Len(mintCalls) |-> mintCalls[k].wallet] = SendableAmongFirst(mintIdx - 1)
    /\ mintPc = "returned" => mintIdx = Len(recipients) + 1

\* C25 witness: the call returned after a malformed first address, for which
\* nothing was sent, and a later recipient was minted.
LaterRecipientMintedAfterFailure ==
    /\ mintPc = "returned"
    /\ Len(recipients) = 2
    /\ ~ isValidSolanaAddress(Field(recipients[1], "wallet"))
    /\ Len(failed) = 1 /\ failed[1].recipient = recipients[1]
    /\ Len(successful) = 1 /\ successful[1].recipient = recipients[2]
    /\ Len(mintCalls) = 1

(***************************************************************************)
(* mintToMany with a progress callback that may throw.                     *)
(***************************************************************************)

\* one iteration of mintToMany with onProgress given. The call after a mint is
\* inside the try block: when it throws, the catch block pushes the recipient
\* to failed and calls onProgress again; a throw inside the catch block leaves
\* mintToMany. threw: the call in the try block throws; threwAgain: the call in
\* the catch block throws.
MintOneWithProgress(confirmed, threw, threwAgain) ==
    /\ mintPc = "minting"
    /\ mintIdx <= Len(recipients)
    /\ LET recipient == recipients[mintIdx]
           wallet == Field(recipient, "wallet")
           minted == isValidSolanaAddress(wallet) /\ confirmed
           caught == ~ minted \/ threw
       IN  /\ mintCalls' = IF isValidSolanaAddress(wallet)
                           THEN Append(mintCalls, [tier |-> tier, wallet |-> wallet,
                                                   confirmed |-> confirmed])
                           ELSE mintCalls
           /\ successful' = IF minted
                            THEN Append(successful, [recipient |-> recipient,
                                                     signature |-> Len(mintCalls) + 1])
                            ELSE successful
           /\ failed' = IF ~ caught THEN failed
                        ELSE Append(failed,
                                 [recipient |-> recipient,
                                  error |-> IF ~ isValidSolanaAddress(wallet)
                                            THEN "Invalid wallet address"
                                            ELSE IF ~ confirmed THEN "Transaction failed"
                                            ELSE "thrown by onProgress"])
           /\ IF caught /\ threwAgain
              THEN mintPc' = "rejected" /\ UNCHANGED mintIdx
              ELSE mintIdx' = mintIdx + 1 /\ UNCHANGED mintPc
    /\ UNCHANGED <<tier, recipients, resultsFiles, mintRuns>>

NextCallback ==
    \/ \E confirmed \in BOOLEAN, threw \in BOOLEAN, threwAgain \in BOOLEAN :
           MintOneWithProgress(confirmed, threw, threwAgain) /\ UNCHANGED mintOthers
    \/ MintToManyReturns /\ UNCHANGED mintOthers

SpecCallback == InitMintMany /\ [][NextCallback]_vars

\* the transactions sent so far that were confirmed
ConfirmedCalls ==
    LET ok(call) == call.confirmed
    IN  SelectSeq(mintCalls, ok)

\* C26: the progress callback cannot change the result of mintToMany, even
\* when it throws: the call is never left by an exception, successful holds
\* the recipients whose mint was confirmed, and every recipient handled is in
\* exactly one of successful and failed.
CallbackCannotChangeResult ==
    /\ mintPc # "rejected"
    /\ Len(successful) = Len(ConfirmedCalls)
    /\ Len(successful) + Len(failed) = mintIdx - 1
    /\ \A r \in Range(recipients) :
          TimesIn(successful, r) + TimesIn(failed, r) = TimesAmongFirst(mintIdx - 1, r)

(***************************************************************************)
(* sendEmail inside sendBatchEmails: retries and backoff.                  *)
(***************************************************************************)

MaxBatch == 2

DEFAULT_MAX_RETRIES == 3

BASE_BACKOFF_MS == 1000

BATCH_PAUSE_MS == 100

SendInit ==
    /\ sendPc = "ready"
    /\ sendBatch \in UNION {[1..n -> {<<"p">>, <<"q">>}] : n \in 0..MaxBatch}
    /\ sendAttempt = 0
    /\ sendEvents = <<>>
    /\ sendResults = [status |-> "running", sent |-> <<>>, failed |-> <<>>]

\* the position of the loop of sendBatchEmails: current
CurrentItem == Len(sendResults.sent) + Len(sendResults.failed) + 1

\* sendBatchEmails calls sendEmail for the next email; its loop starts at attempt 1
StartSendEmail ==
    /\ sendPc = "ready"
    /\ CurrentItem <= Len(sendBatch)
    /\ sendAttempt' = 1
    /\ sendPc' = "attempt"
    /\ UNCHANGED <<sendBatch, sendEvents, sendResults>>

\* one pass through the try block of sendEmail: the mail service accepts the
\* message, or answers with an error or the request throws. A success returns
\* at once; a failure on an attempt before the last sleeps; a failure on the
\* last attempt leaves the loop and returns {success: false, error}.
\* sendBatchEmails pushes to sent or failed on return.
AttemptSend(accepted) ==
    /\ sendPc = "attempt"
    /\ sendEvents' = Append(sendEvents, [item |-> CurrentItem, kind |-> "request",
                                         attempt |-> sendAttempt, ok |-> accepted,
                                         ms |-> 0])
    /\ IF accepted
       THEN /\ sendResults' = [sendResults EXCEPT
                                 !.sent = Append(@, [email |-> sendBatch[CurrentItem]])]
            /\ sendPc' = IF CurrentItem < Len(sendBatch) THEN "pause" ELSE "ready"
            /\ sendAttempt' = 0
       ELSE IF sendAttempt < DEFAULT_MAX_RETRIES
       THEN /\ sendPc' = "backoff"
            /\ UNCHANGED <<sendResults, sendAttempt>>
       ELSE /\ sendResults' = [sendResults EXCEPT
                                 !.failed = Append(@, [email |-> sendBatch[CurrentItem],
                                                       error |-> "send failed"])]
            /\ sendPc' = IF CurrentItem < Len(sendBatch) THEN "pause" ELSE "ready"
            /\ sendAttempt' = 0
    /\ UNCHANGED sendBatch

\* a mutant of BackoffSleep: every wait is one second
BackoffSleepConstant ==
    /\ sendPc = "backoff"
    /\ sendEvents' = Append(sendEvents, [item |-> CurrentItem, kind |-> "backoff",
                                         attempt |-> sendAttempt, ok |-> FALSE,
                                         ms |-> BASE_BACKOFF_MS])
    /\ sendAttempt' = sendAttempt + 1
    /\ sendPc' = "attempt"
    /\ UNCHANGED <<sendBatch, sendResults>>

\* await delay(Math.pow(2, attempt - 1) * 1000), then the next attempt
BackoffSleep ==
    /\ sendPc = "backoff"
    /\ sendEvents' = Append(sendEvents, [item |-> CurrentItem, kind |-> "backoff",
                                         attempt |-> sendAttempt, ok |-> FALSE,
                                         ms |-> 2 ^ (sendAttempt - 1) * BASE_BACKOFF_MS])
    /\ sendAttempt' = sendAttempt + 1
    /\ sendPc' = "attempt"
    /\ UNCHANGED <<sendBatch, sendResults>>

\* if (i < emails.length - 1) await delay(100)
PauseBetweenEmails ==
    /\ sendPc = "pause"
    /\ sendEvents' = Append(sendEvents, [item |-> CurrentItem - 1, kind |-> "pause",
                                         attempt |-> 0, ok |-> FALSE,
                                         ms |-> BATCH_PAUSE_MS])
    /\ sendPc' = "ready"
    /\ UNCHANGED <<sendBatch, sendAttempt, sendResults>>

\* return { sent, failed }
SendBatchReturns ==
    /\ sendPc = "ready"
    /\ CurrentItem > Len(sendBatch)
    /\ sendPc' = "returned"
    /\ sendResults' = [sendResults EXCEPT !.status = "returned"]
    /\ UNCHANGED <<sendBatch, sendAttempt, sendEvents>>

sendOthers ==
    <<dataVars, mintVars, verifyVars, activityVars, fixVars, reportVars, csvVars, emailVars,
      lumaFileRows, nameVars, solanaCheck>>

InitSend ==
    DataIdle /\ StagesIdleButLib /\ LumaFilesIdle /\ NameIdle /\ AgreeIdle /\ SendInit

NextSend ==
    \/ StartSendEmail /\ UNCHANGED sendOthers
    \/ \E accepted \in BOOLEAN : AttemptSend(accepted) /\ UNCHANGED sendOthers
    \/ BackoffSleep /\ UNCHANGED sendOthers
    \/ PauseBetweenEmails /\ UNCHANGED sendOthers
    \/ SendBatchReturns /\ UNCHANGED sendOthers

\* every request to the mail service settles and every timer fires
SpecSend == InitSend /\ [][NextSend]_vars /\ WF_vars(NextSend)

\* what happened for the item i of the batch, oldest first
EventsOf(i) ==
    LET mine(e) == e.item = i
    IN  SelectSeq(sendEvents, mine)

RequestsOf(i) ==
    LET request(e) == e.kind = "request"
    IN  SelectSeq(EventsOf(i), request)

\* the item was accepted / was given up after three failed attempts
Accepted(i) == \E k \in DOMAIN RequestsOf(i) : RequestsOf(i)[k].ok

Exhausted(i) == Len(RequestsOf(i)) = 3 /\ ~ Accepted(i)

\* at most three attempts per email, numbered from 1, none after an accepted
\* one; a failed first attempt is followed by a wait of 1000 ms and a failed
\* second one by 2000 ms, each before the next attempt; nothing but the pause
\* between emails follows an accepted or a third attempt; the emails accepted
\* are in sent and the exhausted ones in failed, and the batch returns with
\* every email in one of them
RetryPolicyKept ==
    /\ \A i \in DOMAIN sendBatch :
          LET ev == EventsOf(i)
              reqs == RequestsOf(i)
          IN  /\ Len(reqs) <= 3
              /\ \A k \in DOMAIN reqs :
                    /\ reqs[k].attempt = k
                    /\ k < Len(reqs) => ~ reqs[k].ok
              /\ \A j \in DOMAIN ev :
                    /\ (ev[j].kind = "request" /\ j < Len(ev)) =>
                          IF ~ ev[j].ok /\ ev[j].attempt = 1
                          THEN ev[j + 1].kind = "backoff" /\ ev[j + 1].ms = 1000
                          ELSE IF ~ ev[j].ok /\ ev[j].attempt = 2
                          THEN ev[j + 1].kind = "backoff" /\ ev[j + 1].ms = 2000
                          ELSE ev[j + 1].kind = "pause"
                    /\ ev[j].kind = "backoff" =>
                          /\ j > 1 /\ ev[j - 1].kind = "request" /\ ~ ev[j - 1].ok
                          /\ j < Len(ev) => ev[j + 1].kind = "request"
                    /\ ev[j].kind = "pause" => j = Len(ev)
    /\ Len(sendResults.sent) = Cardinality({i \in DOMAIN sendBatch : Accepted(i)})
    /\ Len(sendResults.failed) = Cardinality({i \in DOMAIN sendBatch : Exhausted(i)})
    /\ sendPc = "returned" =>
          Len(sendResults.sent) + Len(sendResults.failed) = Len(sendBatch)

MaxDay == 3

SECONDS_PER_DAY == 24 * 60 * 60

\* new Date('YYYY-MM-DD').getTime() / 1000: a date-only text is midnight UTC
\* at the start of that day; day is the number of the day since the epoch
DateSeconds(day) == day * SECONDS_PER_DAY

\* times of day: midnight, one second later, noon, the last second
DayOffsets == {0, 1, SECONDS_PER_DAY \div 2, SECONDS_PER_DAY - 1}

\* checkWalletActivity(connection, wallet, config.tourStartDate,
\* config.tourEndDate) for a wallet with one transaction
WindowInit ==
    /\ walletAddress = ValidWallet
    /\ \E startDay \in 1..MaxDay, endDay \in 1..MaxDay :
          /\ startDay <= endDay
          /\ startTime = DateSeconds(startDay)
          /\ endTime = DateSeconds(endDay)
    /\ \E day \in 0..(MaxDay + 1), offset \in DayOffsets :
          signatures = [status |-> "ok",
                        entries |-> <<Entry(1, DateSeconds(day) + offset)>>]
    /\ activity = [status |-> "none"]

InitWindow ==
    /\ DataIdle /\ MintIdle /\ VerifyIdle /\ WindowInit
    /\ FixIdle /\ ReportIdle /\ CsvIdle /\ EmailIdle /\ LibIdle

SpecWindow == InitWindow /\ [][NextActivity]_vars

\* the calendar day, UTC, an instant falls on
DayOf(seconds) == seconds \div SECONDS_PER_DAY

\* C28: the window is inclusive of its end date: a transaction counts when
\* the day of its block time is the start date, the end date or a day between
\* them, at whatever time of that day, and does not count otherwise.
WindowIncludesEndDate ==
    activity.status = "done" =>
        (activity.result.isBuilder
            <=> /\ DayOf(signatures.entries[1].blockTime) >= DayOf(startTime)
                /\ DayOf(signatures.entries[1].blockTime) <= DayOf(endTime))

\* the same for every transaction that is not on the end date after midnight
WindowRightBeforeEndDate ==
    (activity.status = "done"
         /\ ~ (/\ DayOf(signatures.entries[1].blockTime) = DayOf(endTime)
               /\ signatures.entries[1].blockTime > endTime)) =>
        (activity.result.isBuilder
            <=> /\ DayOf(signatures.entries[1].blockTime) >= DayOf(startTime)
                /\ DayOf(signatures.entries[1].blockTime) <= DayOf(endTime))

(***************************************************************************)
(* The two address validators on one input.                                *)
(***************************************************************************)

AgreeInit == AddressInit /\ solanaCheck = [status |-> "none"]

\* validateWalletAddress(address) and isValidSolanaAddress(address) on the same
\* value; isValidSolanaAddress answers false for what is not a string
CallBothValidators ==
    /\ addressCheck = [status |-> "none"]
    /\ solanaCheck = [status |-> "none"]
    /\ addressCheck' = validateWalletAddress(address)
    /\ solanaCheck' = [status |-> "done",
                       valid |-> address.kind = "string"
                                 /\ isValidSolanaAddress(address.text)]
    /\ UNCHANGED address

InitAgree ==
    /\ ConsolidateIdle /\ SimilarityIdle /\ ValidateIdle /\ StagesIdleButLib
    /\ LumaFilesIdle /\ NameIdle /\ SendIdle /\ AgreeInit

NextAgree ==
    /\ CallBothValidators
    /\ UNCHANGED <<consolidateVars, similarityVars, validateVars, mintVars, verifyVars,
                   activityVars, fixVars, reportVars, csvVars, emailVars, lumaFileRows,
                   nameVars, sendVars>>

SpecAgree == InitAgree /\ [][NextAgree]_vars

\* C29: the two address validators agree on every input: isValidSolanaAddress
\* answers true exactly when validateWalletAddress answers valid, so an
\* address the gate accepts is never refused by the classifier or the mint.
ValidatorsAgree ==
    solanaCheck.status = "done" => solanaCheck.valid = addressCheck.valid

\* C29 witness: both validators refused an address of 32 base-58 characters
\* followed by a line break.
BothRefuseTrailingBreak ==
    /\ solanaCheck.status = "done"
    /\ address.kind = "string"
    /\ Len(address.text) = 33 /\ address.text[33] = "\n"
    /\ \A i \in 1..32 : address.text[i] \in Base58Alphabet
    /\ ~ solanaCheck.valid /\ ~ addressCheck.valid

(***************************************************************************)
(* 0-validate-data.js --fix run twice on the same file.                    *)
(***************************************************************************)

\* a second run of the script with --fix on the file the first run saved
RunFixAgain ==
    /\ fixReport.status = "done"
    /\ fixReport.fix
    /\ LET cleaned == removeDuplicates(cleanParticipantData(savedParticipants))
       IN  /\ savedParticipants' = cleaned
           /\ fixReport' = [status |-> "again", fix |-> TRUE,
                            report |-> validateAllParticipants(cleaned),
                            before |-> savedParticipants]
    /\ UNCHANGED fixInput

NextRefix ==
    \/ \E shouldFix \in BOOLEAN : RunValidateData(shouldFix) /\ UNCHANGED fixOthers
    \/ RunFixAgain /\ UNCHANGED fixOthers

SpecRefix == InitFix /\ [][NextRefix]_vars

\* no two records of the list have the same trimmed, lower-cased address
NoSharedAddress(ps) ==
    \A i, j \in DOMAIN ps :
        (/\ i # j /\ HasAddress(ps[i]) /\ HasAddress(ps[j])
         /\ ToLowerCase(Trim(ps[i].wallet)) = ToLowerCase(Trim(ps[j].wallet))) => FALSE

\* C30: after the auto-fix pass the duplicate search of the validation that
\* follows finds no cluster and no two kept records share an address; the
\* kept records are records of the input, trimmed, in their original
\* relative order; and a second pass leaves the saved list as it was.
AutoFixIdempotent ==
    /\ (fixReport.status \in {"done", "again"} /\ fixReport.fix) =>
          /\ fixReport.report.duplicates = <<>>
          /\ NoSharedAddress(savedParticipants)
          /\ \E S \in SUBSET DOMAIN fixInput :
                LET kept == PickFrom(fixInput, S, 1)
                IN  /\ Len(savedParticipants) = Len(kept)
                    /\ \A k \in DOMAIN kept : IsTrimmed(kept[k], savedParticipants[k])
    /\ fixReport.status = "again" => savedParticipants = fixReport.before

\* C30 witness: the pass ran twice on a list of two records whose addresses
\* differ only in case; one record was kept.
CaseVariantRemovedOnce ==
    /\ fixReport.status = "again"
    /\ Len(fixInput) = 2
    /\ HasAddress(fixInput[1]) /\ HasAddress(fixInput[2])
    /\ fixInput[1].wallet # fixInput[2].wallet
    /\ ToLowerCase(Trim(fixInput[1].wallet)) = ToLowerCase(Trim(fixInput[2].wallet))
    /\ Len(savedParticipants) = 1

====
